---- MODULE Spec2Model ----
(***************************************************************************)
(* A model of the manifest diff and report engine of tamcore/argo-diff:    *)
(* the line differ and the resource set differ of pkg/diff/engine.go, the  *)
(* result deduplicator, and the report segmenter of pkg/github/client.go.  *)
(*                                                                         *)
(* Text is modelled as a sequence of one-character strings, so that        *)
(* splitting, trimming and joining are computed and not assumed.           *)
(***************************************************************************)
EXTENDS Integers, Sequences, FiniteSets, TLC

VARIABLES
    oldLines,    \* generateUnifiedDiff: the `before` lines
    newLines,    \* generateUnifiedDiff: the `after` lines
    diffLines,   \* generateUnifiedDiff: the diffLine sequence `result`
    diffText,    \* generateUnifiedDiff: the returned unified diff
    diffPc,      \* "idle" | "ready" | "done"
    baseManifests,  \* GenerateDiff: the base manifest strings
    headManifests,  \* GenerateDiff: the head manifest strings
    genResult,      \* GenerateDiff: the returned (*DiffResult, error)
    genAgain,       \* GenerateDiff: what a second call with the same arguments returned
    genPc,          \* "idle" | "ready" | "done" | "again"
    results,        \* deduplicateResults: the DiffResults of one job
    deduped,        \* deduplicateResults: the same results after the call
    dedupPc,        \* "idle" | "ready" | "done"
    body,           \* splitComment: the report body
    parts,          \* splitComment: the returned parts
    segPc,          \* "idle" | "ready" | "done"
    fmtResult,  \* FormatAppDiff: the DiffResult to render
    fmtText,  \* FormatAppDiff: the returned markdown
    fmtPc, \* "idle" | "ready" | "done"
    prComments,  \* PostComment: the bodies of the comments on the pull request, in listing order
    postBody,  \* PostComment: the report body
    postParts,  \* PostComment: parts
    postCursor,  \* PostComment: the comment DeleteOldComments looks at, then the part to create
    postErr,  \* PostComment: the returned error, "nil" for none
    postPc, \* "idle" | "list" | "delete" | "create" | "done"
    optsPage,  \* DeleteOldComments: opts.Page, 0 until a next page is asked for
    pageLeft,  \* DeleteOldComments: how many comments of the listed page are still to be looked at
    respNextPage,  \* DeleteOldComments: resp.NextPage of the last listing, 0 for none
    collParts,  \* collapse: the parts splitComment returned
    collThreshold,  \* collapse: the collapse threshold of the job
    collOut,  \* collapse: the parts after the transform
    collPc, \* "idle" | "ready" | "done"
    affectedApps,  \* processJob: the names of the affected applications
    jobCursor,  \* processJob: the application the loop is at
    diffResults,  \* processJob: diffResults
    jobReport,  \* processJob: the report handed to FormatReport and PostComment, <<>> for none
    jobPc, \* "idle" | "loop" | "done"
    queueSize,  \* Pool: capacity of the jobQueue channel
    workerCount,  \* Pool: number of worker goroutines
    jobQueue,  \* Pool: the jobs buffered in the jobQueue channel, oldest first
    draining,  \* Pool: the draining flag
    done,  \* Pool: TRUE once the done channel is closed
    submitPc,  \* Pool: per job, where its Submit call stands: "idle", "loaded", "true", "false"
    workerPc,  \* Pool: per worker: "new", "select", "run", "exit"
    workerJob,  \* Pool: per worker, the job its processor call holds, 0 for none
    handed,  \* Pool: per job, how many times it was handed to the processor
    stopPc, \* Pool: where the Stop call stands: "idle", "stored", "closed", "returned"
    rate,  \* Limiter: requests allowed per window
    window,  \* Limiter: length of the window, in clock ticks
    wallClock,  \* Limiter: what time.Now() returns
    mu,  \* Limiter: the caller holding the mutex, 0 for none
    limits,  \* Limiter: per key, its bucket
    callerKey,  \* Limiter: per caller, the key of its Allow call in progress, "" for none
    windowStart,  \* history: per key, the time of the call that opened its current window, -1 for none
    granted,  \* history: per key, the number of calls that returned true in its current window
    lastCall, \* history: key and result of the latest Allow call that returned
    retrySite,  \* retry: the client method that called it
    retryI,  \* retry: the loop counter i
    retryPc,  \* retry: "idle", "call" (about to invoke fn), "wait" (in the select), "done"
    waitLeft,  \* retry: what is left of the backoff delay, in units of 5 seconds
    cancelled,  \* retry: TRUE once ctx is cancelled
    retryErr,  \* retry: the error returned, kind "none" while running
    fnResults,  \* history: the results of the invocations of fn, in order
    cancelledInWait, \* history: TRUE when ctx was cancelled while retry was in a backoff wait
    allowlist,  \* Server: cfg.RepoAllowlist, a list of patterns
    hookQueue,  \* Server: the jobs buffered in s.jobQueue, oldest first
    hookRequest,  \* history: the request handleWebhook answered last, <<>> for none
    hookStatus, \* history: the status code of that answer, 0 for none
    chunkInput,  \* the string handed to chunkString
    chunkLimit,  \* the chunk size handed to chunkString
    chunks,  \* the chunks returned
    chunkPc  \* "idle", "ready" or "done"

lineVars  == <<oldLines, newLines, diffLines, diffText, diffPc>>
genVars   == <<baseManifests, headManifests, genResult, genAgain, genPc>>
dedupVars == <<results, deduped, dedupPc>>
segVars   == <<body, parts, segPc>>
fmtVars == <<fmtResult, fmtText, fmtPc>>
postVars == <<prComments, postBody, postParts, postCursor, postErr, postPc, optsPage, pageLeft, respNextPage>>
collVars == <<collParts, collThreshold, collOut, collPc>>
jobVars == <<affectedApps, jobCursor, diffResults, jobReport, jobPc>>
poolVars == <<queueSize, workerCount, jobQueue, draining, done, submitPc, workerPc, workerJob, handed, stopPc>>
limVars == <<rate, window, wallClock, mu, limits, callerKey, windowStart, granted, lastCall>>
retryVars == <<retrySite, retryI, retryPc, waitLeft, cancelled, retryErr, fnResults, cancelledInWait>>
hookVars == <<allowlist, hookQueue, hookRequest, hookStatus>>
chunkVars == <<chunkInput, chunkLimit, chunks, chunkPc>>
vars == <<lineVars, genVars, dedupVars, segVars, fmtVars, postVars, collVars, jobVars, poolVars, limVars, retryVars, hookVars, chunkVars>>

-----------------------------------------------------------------------------
(* Bounds of the model *)

\* longest string handed to chunkString, in characters
MaxTextLen == 6
\* largest chunk size handed to chunkString
MaxChunkSize == 3

\* longest line sequence handed to the line differ
MaxLines == 3
\* number of low-order bits of the 64-bit line hash the model keeps
HashBits == 4
\* number of distinct instants time.Now() can return during one run
MaxClock == 1
\* longest list of manifest strings handed to GenerateDiff for one revision
MaxManifests == 1
\* largest number of applications in one job
MaxResults == 3
\* largest number of runs of equal characters in a report body
MaxRuns == 4
\* largest number of comments on the pull request before PostComment is called
MaxOldComments == 2
\* largest number of affected applications of a job
MaxApps == 3
\* largest number of parts handed to the collapse transform
MaxParts == 4
\* largest collapse threshold of a job
MaxThreshold == 3
\* most jobs submitted to one pool
MaxJobs == 3
\* most worker goroutines of one pool
MaxWorkers == 2
\* largest capacity of the job queue
MaxQueueSize == 2
\* largest rate a limiter is built with
MaxRate == 2
\* longest window a limiter is built with, in clock ticks
MaxWindow == 2
\* last clock tick of a limiter run
MaxTime == 3
\* most goroutines calling Allow at once
MaxCallers == 2
\* longest file handed to the line differ in the runs about hunks
MaxFileLines == 8
\* most edits between the two versions of such a file
MaxEdits == 2

-----------------------------------------------------------------------------
(* Generic helpers on sequences and text *)

Range(s) == {s[i] : i \in 1..Len(s)}

RECURSIVE SeqsUpTo(_, _)
SeqsUpTo(S, n) ==
    IF n = 0 THEN {<<>>}
    ELSE LET shorter == SeqsUpTo(S, n - 1)
         IN  shorter \cup {Append(s, x) : s \in {t \in shorter : Len(t) = n - 1}, x \in S}

RECURSIVE Pow2(_)
Pow2(n) == IF n = 0 THEN 1 ELSE 2 * Pow2(n - 1)

RECURSIVE Xor(_, _)
Xor(a, b) ==
    IF a = 0 THEN b
    ELSE IF b = 0 THEN a
    ELSE ((a + b) % 2) + 2 * Xor(a \div 2, b \div 2)

\* uint64(s[i]) for the characters the model uses (ASCII)
Ord(c) ==
    CASE c = "\n" -> 10
      [] c = " "  -> 32
      [] c = "!"  -> 33
      [] c = ","  -> 44
      [] c = "-"  -> 45
      [] c = "/"  -> 47
      [] c = "1"  -> 49
      [] c = "2"  -> 50
      [] c = "3"  -> 51
      [] c = "A"  -> 65
      [] c = "B"  -> 66
      [] c = "C"  -> 67
      [] c = "H"  -> 72
      [] c = "J"  -> 74
      [] c = "a"  -> 97
      [] c = "b"  -> 98
      [] c = "h"  -> 104
      [] c = "k"  -> 107
      [] c = "n"  -> 110
      [] c = "p"  -> 112
      [] c = "q"  -> 113
      [] c = "r"  -> 114
      [] c = "s"  -> 115
      [] c = "v"  -> 118
      [] c = "{"  -> 123
      [] c = "}"  -> 125

\* unicode.IsSpace for the characters the model uses
IsSpace(c) == c \in {" ", "\n"}

SubText(s, from, to) == IF from > to THEN <<>> ELSE SubSeq(s, from, to)

\* strings.TrimSpace
TrimSpace(s) ==
    LET keep == {i \in 1..Len(s) : ~IsSpace(s[i])}
    IN  IF keep = {} THEN <<>>
        ELSE SubText(s, CHOOSE i \in keep : \A j \in keep : i <= j,
                        CHOOSE i \in keep : \A j \in keep : i >= j)

\* strings.HasPrefix
HasPrefix(s, prefix) ==
    Len(s) >= Len(prefix) /\ SubText(s, 1, Len(prefix)) = prefix

\* the first position >= from at which sep occurs in s, 0 when there is none
IndexFrom(s, sep, from) ==
    LET hits == {i \in from..(Len(s) - Len(sep) + 1) : SubText(s, i, i + Len(sep) - 1) = sep}
    IN  IF hits = {} THEN 0 ELSE CHOOSE i \in hits : \A j \in hits : i <= j

\* strings.Split(s, sep) for a non-empty sep: Split("", sep) is [""]
RECURSIVE SplitFrom(_, _, _)
SplitFrom(s, sep, from) ==
    LET at == IndexFrom(s, sep, from)
    IN  IF at = 0 THEN <<SubText(s, from, Len(s))>>
        ELSE <<SubText(s, from, at - 1)>> \o SplitFrom(s, sep, at + Len(sep))

Split(s, sep) == SplitFrom(s, sep, 1)

\* strings.Join
RECURSIVE Join(_, _)
Join(elems, sep) ==
    IF Len(elems) = 0 THEN <<>>
    ELSE IF Len(elems) = 1 THEN elems[1]
    ELSE elems[1] \o sep \o Join(Tail(elems), sep)

\* the permutations of a finite set, as sequences
RECURSIVE Perms(_)
Perms(S) ==
    IF S = {} THEN {<<>>}
    ELSE UNION {{<<x>> \o p : p \in Perms(S \ {x})} : x \in S}

-----------------------------------------------------------------------------
(* generateUnifiedDiff: hashing and anchors *)

\* 14695981039346656037 (FNV-1a offset basis) modulo 2^16
FNVOffsetLow == 8997
\* 1099511628211 (FNV-1a prime) modulo 2^16
FNVPrimeLow == 435

HashModulus == Pow2(HashBits)

\* hashLine keeps the low HashBits bits of the 64-bit FNV-1a value: xor and
\* multiplication modulo 2^64 commute with truncation, so lines whose real
\* hashes agree also agree here, and the model only adds collisions.
RECURSIVE hashFrom(_, _, _)
hashFrom(h, s, i) ==
    IF i > Len(s) THEN h
    ELSE hashFrom((Xor(h, Ord(s[i]) % HashModulus) * (FNVPrimeLow % HashModulus)) % HashModulus,
                  s, i + 1)

hashLine(s) == hashFrom(FNVOffsetLow % HashModulus, s, 1)

\* oldHashes[h]: the 0-based indexes of the old lines with hash h, ascending
oldHashes(old, h) ==
    LET idxs == {i \in 0..(Len(old) - 1) : hashLine(old[i + 1]) = h}
        RECURSIVE Asc(_)
        Asc(S) == IF S = {} THEN <<>>
                  ELSE LET m == CHOOSE x \in S : \A y \in S : x <= y
                       IN  <<m>> \o Asc(S \ {m})
    IN  Asc(idxs)

\* mutant: the hash match is trusted, the text is not compared
RECURSIVE firstMatchHashOnly(_, _, _, _, _)
firstMatchHashOnly(old, bucket, k, usedOld, line) ==
    IF k > Len(bucket) THEN -1
    ELSE IF bucket[k] \notin usedOld THEN bucket[k]
    ELSE firstMatchHashOnly(old, bucket, k + 1, usedOld, line)

\* the first index of the bucket that is unused and whose text equals `line`
RECURSIVE firstMatch(_, _, _, _, _)
firstMatch(old, bucket, k, usedOld, line) ==
    IF k > Len(bucket) THEN -1
    ELSE IF bucket[k] \notin usedOld /\ old[bucket[k] + 1] = line THEN bucket[k]
    ELSE firstMatch(old, bucket, k + 1, usedOld, line)

RECURSIVE findAnchors(_, _, _, _, _)
findAnchors(old, new, newIdx, usedOld, acc) ==
    IF newIdx >= Len(new) THEN acc
    ELSE LET line == new[newIdx + 1]
             m    == firstMatch(old, oldHashes(old, hashLine(line)), 1, usedOld, line)
         IN  IF m = -1
             THEN findAnchors(old, new, newIdx + 1, usedOld, acc)
             ELSE findAnchors(old, new, newIdx + 1, usedOld \cup {m},
                              Append(acc, [oldIdx |-> m, newIdx |-> newIdx]))

\* sort.Slice by oldIdx (the old indexes of the anchors are pairwise distinct)
RECURSIVE sortAnchors(_)
sortAnchors(S) ==
    IF S = {} THEN <<>>
    ELSE LET m == CHOOSE x \in S : \A y \in S : x.oldIdx <= y.oldIdx
         IN  <<m>> \o sortAnchors(S \ {m})

anchorsOf(old, new) == sortAnchors(Range(findAnchors(old, new, 0, {}, <<>>)))

-----------------------------------------------------------------------------
(* generateUnifiedDiff: longest increasing subsequence of the anchors *)

\* the inner loop `for j := 0; j < i; j++` for one i; cur = [d |-> dp[i], p |-> parent[i]]
\* the inner loop with the comparison of new indexes turned round
RECURSIVE lisInnerDecreasing(_, _, _, _, _)
lisInnerDecreasing(a, dp, i, j, cur) ==
    IF j >= i THEN cur
    ELSE lisInnerDecreasing(a, dp, i, j + 1,
                  IF a[j + 1].newIdx > a[i + 1].newIdx /\ dp[j + 1] + 1 > cur.d
                  THEN [d |-> dp[j + 1] + 1, p |-> j]
                  ELSE cur)

RECURSIVE lisInner(_, _, _, _, _)
lisInner(a, dp, i, j, cur) ==
    IF j >= i THEN cur
    ELSE lisInner(a, dp, i, j + 1,
                  IF a[j + 1].newIdx < a[i + 1].newIdx /\ dp[j + 1] + 1 > cur.d
                  THEN [d |-> dp[j + 1] + 1, p |-> j]
                  ELSE cur)

\* the outer loop: the arrays dp and parent (as sequences, entry i+1 for index i)
RECURSIVE lisTable(_, _, _, _)
lisTable(a, i, dp, parent) ==
    IF i >= Len(a) THEN [dp |-> dp, parent |-> parent]
    ELSE LET cur == lisInner(a, dp, i, 0, [d |-> 1, p |-> -1])
         IN  lisTable(a, i + 1, Append(dp, cur.d), Append(parent, cur.p))

\* maxLen, maxIdx := 1, 0, raised whenever dp[i] > maxLen
RECURSIVE lisMax(_, _, _)
lisMax(dp, i, best) ==
    IF i >= Len(dp) THEN best
    ELSE lisMax(dp, i + 1,
                IF dp[i + 1] > best.maxLen THEN [maxLen |-> dp[i + 1], maxIdx |-> i] ELSE best)

\* lisIdxs, filled from the back along the parent links
RECURSIVE lisBack(_, _, _)
lisBack(parent, n, idx) ==
    IF n = 0 THEN <<>>
    ELSE Append(lisBack(parent, n - 1, parent[idx + 1]), idx)

\* mutant: only the first anchor survives
lisFirstOnly(a) == IF Len(a) = 0 THEN <<>> ELSE <<a[1]>>

\* no selection: every anchor is kept
lisKeepAll(a) == a

lisOf(a) ==
    IF Len(a) = 0 THEN <<>>
    ELSE LET t    == lisTable(a, 0, <<>>, <<>>)
             best == lisMax(t.dp, 1, [maxLen |-> 1, maxIdx |-> 0])
             idxs == lisBack(t.parent, best.maxLen, best.maxIdx)
         IN  [k \in 1..Len(idxs) |-> a[idxs[k] + 1]]

-----------------------------------------------------------------------------
(* generateUnifiedDiff: the diffLine sequence *)

Deleted(old, i) == [text |-> old[i + 1], change |-> "-", oldLine |-> i + 1, newLine |-> 0]
Added(new, i)   == [text |-> new[i + 1], change |-> "+", oldLine |-> 0, newLine |-> i + 1]
Same(old, i, j) == [text |-> old[i + 1], change |-> " ", oldLine |-> i + 1, newLine |-> j + 1]

\* deletions old[from..to-1]
RECURSIVE emitDeletions(_, _, _)
emitDeletions(old, from, to) ==
    IF from >= to THEN <<>> ELSE <<Deleted(old, from)>> \o emitDeletions(old, from + 1, to)

\* additions new[from..to-1]
RECURSIVE emitAdditions(_, _, _)
emitAdditions(new, from, to) ==
    IF from >= to THEN <<>> ELSE <<Added(new, from)>> \o emitAdditions(new, from + 1, to)

\* the same walk with each run of additions put before its deletions
RECURSIVE walkAnchorsAddFirst(_, _, _, _, _, _)
walkAnchorsAddFirst(old, new, lis, k, oldIdx, newIdx) ==
    IF k > Len(lis)
    THEN emitAdditions(new, newIdx, Len(new)) \o emitDeletions(old, oldIdx, Len(old))
    ELSE LET m  == lis[k]
             oi == IF oldIdx < m.oldIdx THEN m.oldIdx ELSE oldIdx
             ni == IF newIdx < m.newIdx THEN m.newIdx ELSE newIdx
         IN  emitAdditions(new, newIdx, m.newIdx)
             \o emitDeletions(old, oldIdx, m.oldIdx)
             \o <<Same(old, oi, ni)>>
             \o walkAnchorsAddFirst(old, new, lis, k + 1, oi + 1, ni + 1)

\* the loop over lis followed by the two trailing loops
RECURSIVE walkAnchors(_, _, _, _, _, _)
walkAnchors(old, new, lis, k, oldIdx, newIdx) ==
    IF k > Len(lis)
    THEN emitDeletions(old, oldIdx, Len(old)) \o emitAdditions(new, newIdx, Len(new))
    ELSE LET m  == lis[k]
             oi == IF oldIdx < m.oldIdx THEN m.oldIdx ELSE oldIdx
             ni == IF newIdx < m.newIdx THEN m.newIdx ELSE newIdx
         IN  emitDeletions(old, oldIdx, m.oldIdx)
             \o emitAdditions(new, newIdx, m.newIdx)
             \o <<Same(old, oi, ni)>>
             \o walkAnchors(old, new, lis, k + 1, oi + 1, ni + 1)

buildDiffLines(old, new) == walkAnchors(old, new, lisOf(anchorsOf(old, new)), 1, 0, 0)

-----------------------------------------------------------------------------
(* generateUnifiedDiff: hunks and rendering *)

\* mutant of the fast path: sequences of equal length are taken for identical
sameLength(old, new) == Len(old) = Len(new)

\* the fast path: equal length and element-wise identical
identicalLines(old, new) ==
    Len(old) = Len(new) /\ \A i \in 1..Len(old) : old[i] = new[i]

lineHasChanges(result) == \E i \in 1..Len(result) : result[i].change # " "

\* no context: only a change is near a change
changeOnly(result, idx, contextLines) ==
    idx < Len(result) /\ result[idx + 1].change # " "

\* result[idx] is a change or lies within contextLines positions of one (idx 0-based)
nearChange(result, idx, contextLines) ==
    \E checkIdx \in (idx - contextLines)..(idx + contextLines) :
        checkIdx >= 0 /\ checkIdx < Len(result) /\ result[checkIdx + 1].change # " "

\* the loop that opens and closes hunks; a hunk is [startIdx, endIdx], 0-based
RECURSIVE findHunks(_, _, _, _, _, _)
findHunks(result, contextLines, idx, inHunk, hunkStart, hunks) ==
    IF idx >= Len(result)
    THEN IF inHunk
         THEN Append(hunks, [startIdx |-> hunkStart, endIdx |-> Len(result) - 1])
         ELSE hunks
    ELSE IF result[idx + 1].change # " " \/ nearChange(result, idx, contextLines)
         THEN findHunks(result, contextLines, idx + 1, TRUE,
                        IF inHunk THEN hunkStart ELSE idx, hunks)
         ELSE findHunks(result, contextLines, idx + 1, FALSE, hunkStart,
                        IF inHunk
                        THEN Append(hunks, [startIdx |-> hunkStart, endIdx |-> idx - 1])
                        ELSE hunks)

\* the header loop over one hunk; acc = [oldStart, oldCount, newStart, newCount]
\* the counting loop without the test that a start number is still 0
RECURSIVE hunkCountsLastStart(_, _, _, _)
hunkCountsLastStart(result, idx, endIdx, acc) ==
    IF idx > endIdx THEN acc
    ELSE LET line == result[idx + 1]
             os == IF line.oldLine > 0 THEN line.oldLine ELSE acc.oldStart
             ns == IF line.newLine > 0 THEN line.newLine ELSE acc.newStart
             nxt == CASE line.change = " " ->
                            [oldStart |-> os, oldCount |-> acc.oldCount + 1,
                             newStart |-> ns, newCount |-> acc.newCount + 1]
                      [] line.change = "-" ->
                            [oldStart |-> os, oldCount |-> acc.oldCount + 1,
                             newStart |-> acc.newStart, newCount |-> acc.newCount]
                      [] line.change = "+" ->
                            [oldStart |-> acc.oldStart, oldCount |-> acc.oldCount,
                             newStart |-> ns, newCount |-> acc.newCount + 1]
         IN  hunkCountsLastStart(result, idx + 1, endIdx, nxt)

RECURSIVE hunkCounts(_, _, _, _)
hunkCounts(result, idx, endIdx, acc) ==
    IF idx > endIdx THEN acc
    ELSE LET line == result[idx + 1]
             os == IF acc.oldStart = 0 /\ line.oldLine > 0 THEN line.oldLine ELSE acc.oldStart
             ns == IF acc.newStart = 0 /\ line.newLine > 0 THEN line.newLine ELSE acc.newStart
             nxt == CASE line.change = " " ->
                            [oldStart |-> os, oldCount |-> acc.oldCount + 1,
                             newStart |-> ns, newCount |-> acc.newCount + 1]
                      [] line.change = "-" ->
                            [oldStart |-> os, oldCount |-> acc.oldCount + 1,
                             newStart |-> acc.newStart, newCount |-> acc.newCount]
                      [] line.change = "+" ->
                            [oldStart |-> acc.oldStart, oldCount |-> acc.oldCount,
                             newStart |-> ns, newCount |-> acc.newCount + 1]
         IN  hunkCounts(result, idx + 1, endIdx, nxt)

\* a header whose start numbers are not defaulted to 1
hunkHeaderNoDefault(result, h) ==
    LET c == hunkCounts(result, h.startIdx, h.endIdx,
                        [oldStart |-> 0, oldCount |-> 0, newStart |-> 0, newCount |-> 0])
    IN  [kind |-> "hunk", oldStart |-> c.oldStart, oldCount |-> c.oldCount,
         newStart |-> c.newStart, newCount |-> c.newCount]

hunkHeader(result, h) ==
    LET c == hunkCounts(result, h.startIdx, h.endIdx,
                        [oldStart |-> 0, oldCount |-> 0, newStart |-> 0, newCount |-> 0])
    IN  [kind |-> "hunk",
         oldStart |-> IF c.oldStart = 0 THEN 1 ELSE c.oldStart, oldCount |-> c.oldCount,
         newStart |-> IF c.newStart = 0 THEN 1 ELSE c.newStart, newCount |-> c.newCount]

\* one output line "%c%s\n" per diffLine of the hunk
hunkBody(result, h) ==
    [k \in 1..(h.endIdx - h.startIdx + 1) |->
        [kind |-> "line", change |-> result[h.startIdx + k].change,
         text |-> result[h.startIdx + k].text]]

RECURSIVE renderHunks(_, _, _)
renderHunks(result, hunks, k) ==
    IF k > Len(hunks) THEN <<>>
    ELSE <<hunkHeader(result, hunks[k])>> \o hunkBody(result, hunks[k])
         \o renderHunks(result, hunks, k + 1)

\* mutant: the file header is written before anything is compared
headerFirst(old, new, filename, contextLines, timestamp) ==
    <<[kind |-> "---", filename |-> filename, timestamp |-> timestamp],
      [kind |-> "+++", filename |-> filename, timestamp |-> timestamp]>>
    \o renderHunks(buildDiffLines(old, new),
                   findHunks(buildDiffLines(old, new), contextLines, 0, FALSE, 0, <<>>), 1)

\* The returned string, one record per line of output; "" is the empty sequence.
\* timestamp is the value of time.Now() at the call.
generateUnifiedDiff(old, new, filename, contextLines, timestamp) ==
    IF identicalLines(old, new) THEN <<>>
    ELSE LET result == buildDiffLines(old, new)
         IN  IF ~lineHasChanges(result) THEN <<>>
             ELSE <<[kind |-> "---", filename |-> filename, timestamp |-> timestamp],
                    [kind |-> "+++", filename |-> filename, timestamp |-> timestamp]>>
                  \o renderHunks(result, findHunks(result, contextLines, 0, FALSE, 0, <<>>), 1)

\* the context the only caller passes: generateUnifiedDiff(..., filename, 3)
ContextLines == 3

-----------------------------------------------------------------------------
(* parseManifests and the decoders it calls *)

\* A character of a key or of a value in the documents of the model.
WordChar(c) == ~IsSpace(c) /\ c \notin {"!", ",", "-", "/", "{", "}"}

\* A document of the model is a list of two-character entries <key, value>,
\* one per line in block style and comma-separated between braces in the
\* notation of structured objects. The keys the Resource struct decodes:
\*   v apiVersion, k kind, n metadata.name, s metadata.namespace,
\*   h metadata.annotations["helm.sh/hook"]; every other key is ignored.
wellFormedEntry(e) == Len(e) = 2 /\ WordChar(e[1]) /\ WordChar(e[2])

fieldOf(entries, k) ==
    LET at == {i \in 1..Len(entries) : entries[i][1] = k}
    IN  IF at = {} THEN <<>> ELSE <<entries[CHOOSE i \in at : \A j \in at : i >= j][2]>>

\* the entries of a document in either notation; <<>> for text that is neither
entriesOf(doc) ==
    IF HasPrefix(doc, <<"{">>)
    THEN IF Len(doc) >= 2 /\ doc[Len(doc)] = "}"
         THEN Split(SubText(doc, 2, Len(doc) - 1), <<",">>)
         ELSE <<>>
    ELSE Split(doc, <<"\n">>)

decodeFailed ==
    [err |-> TRUE, APIVersion |-> <<>>, Kind |-> <<>>, Name |-> <<>>,
     Namespace |-> <<>>, Hook |-> FALSE]

\* the known fields of a list of entries; a key written twice is an error
decodeEntries(entries) ==
    IF /\ Len(entries) > 0
       /\ \A i \in 1..Len(entries) : wellFormedEntry(entries[i])
       /\ \A i, j \in 1..Len(entries) : i # j => entries[i][1] # entries[j][1]
    THEN [err |-> FALSE, APIVersion |-> fieldOf(entries, "v"), Kind |-> fieldOf(entries, "k"),
          Name |-> fieldOf(entries, "n"), Namespace |-> fieldOf(entries, "s"),
          Hook |-> fieldOf(entries, "h") # <<>>]
    ELSE decodeFailed

\* yaml.Unmarshal([]byte(doc), &r): the known fields, or an error
yamlUnmarshal(doc) == decodeEntries(entriesOf(doc))

\* the entries in ascending key order, one line each: the encoder writes the
\* keys of a decoded object sorted, every line ended by a newline
RECURSIVE encodeSorted(_)
encodeSorted(S) ==
    IF S = {} THEN <<>>
    ELSE LET m == CHOOSE x \in S : \A y \in S : Ord(x[1]) <= Ord(y[1])
         IN  m \o <<"\n">> \o encodeSorted(S \ {m})

\* the object decoded from a list of entries (a key written twice keeps its
\* last value), encoded again
encodeObject(entries) ==
    IF \A i \in 1..Len(entries) : wellFormedEntry(entries[i])
    THEN [err |-> FALSE,
          text |-> encodeSorted({<<entries[i][1]>> \o fieldOf(entries, entries[i][1]) :
                                    i \in 1..Len(entries)})]
    ELSE [err |-> TRUE, text |-> <<>>]

\* jsonToYAML: json.Unmarshal of the whole string, then the YAML encoding;
\* [err, text]. Text after the closing brace, or a separator line, is an error.
jsonToYAML(jsonStr) ==
    IF Len(jsonStr) >= 2 /\ jsonStr[1] = "{" /\ jsonStr[Len(jsonStr)] = "}"
    THEN encodeObject(Split(SubText(jsonStr, 2, Len(jsonStr) - 1), <<",">>))
    ELSE [err |-> TRUE, text |-> <<>>]

DocSeparator == <<"\n", "-", "-", "-", "\n">>

\* one trimmed document and what the decoder made of it: the resource, if kept
keepResource(doc, r) ==
    IF doc = <<>> THEN <<>>
    ELSE IF r.err THEN <<>>
    ELSE IF r.APIVersion = <<>> \/ r.Kind = <<>> \/ r.Name = <<>> THEN <<>>
    ELSE <<[APIVersion |-> r.APIVersion, Kind |-> r.Kind, Name |-> r.Name,
            Namespace |-> r.Namespace, Hook |-> r.Hook, raw |-> doc]>>

parseDoc(doc) == keepResource(doc, yamlUnmarshal(doc))

\* the loop over the documents of one manifest
RECURSIVE parseDocs(_, _)
parseDocs(docs, k) ==
    IF k > Len(docs) THEN <<>>
    ELSE parseDoc(TrimSpace(docs[k])) \o parseDocs(docs, k + 1)

\* the converted text of a manifest that begins with "{", if it converts
parseConverted(y) ==
    IF y.err THEN <<>> ELSE parseDocs(Split(y.text, DocSeparator), 1)

\* the body of the outer loop, for one trimmed manifest string
parseTrimmed(manifest) ==
    IF manifest = <<>> THEN <<>>
    ELSE IF HasPrefix(manifest, <<"{">>) THEN parseConverted(jsonToYAML(manifest))
    ELSE parseDocs(Split(manifest, DocSeparator), 1)

parseManifest(m) == parseTrimmed(TrimSpace(m))

RECURSIVE parseManifests(_)
parseManifests(manifests) ==
    IF Len(manifests) = 0 THEN <<>>
    ELSE parseManifest(Head(manifests)) \o parseManifests(Tail(manifests))

-----------------------------------------------------------------------------
(* GenerateDiff *)

\* mutant: no resource is filtered
filterNothing(resources) == resources

\* filterHelmHooks: drop the resources whose annotations hold helm.sh/hook
RECURSIVE filterHelmHooks(_)
filterHelmHooks(resources) ==
    IF Len(resources) = 0 THEN <<>>
    ELSE (IF Head(resources).Hook THEN <<>> ELSE <<Head(resources)>>)
         \o filterHelmHooks(Tail(resources))

\* Resource.key
key(r) ==
    IF r.Namespace # <<>>
    THEN r.APIVersion \o <<"/">> \o r.Kind \o <<"/">> \o r.Namespace \o <<"/">> \o r.Name
    ELSE r.APIVersion \o <<"/">> \o r.Kind \o <<"/">> \o r.Name

\* baseMap / headMap: a later resource overwrites an earlier one with its key
resourceMap(resources) ==
    [k \in {key(resources[i]) : i \in 1..Len(resources)} |->
        resources[CHOOSE i \in 1..Len(resources) :
                    /\ key(resources[i]) = k
                    /\ \A j \in 1..Len(resources) : key(resources[j]) = k => j <= i]]

\* the file name of the diff header
diffFilename(base) ==
    IF base.Namespace = <<>>
    THEN base.Name \o <<"_">> \o base.Kind \o <<".yaml">>
    ELSE base.Namespace \o <<"_">> \o base.Name \o <<"_">> \o base.Kind \o <<".yaml">>

\* generateResourceDiff: the block of a modified resource
generateResourceDiff(base, head, now) ==
    [kind |-> "modified", key |-> key(head), raw |-> <<>>,
     diff |-> generateUnifiedDiff(Split(base.raw, <<"\n">>), Split(head.raw, <<"\n">>),
                                  diffFilename(base), ContextLines, now)]

deletedBlock(base) == [kind |-> "deleted", key |-> key(base), raw |-> base.raw, diff |-> <<>>]
addedBlock(head)   == [kind |-> "added", key |-> key(head), raw |-> head.raw, diff |-> <<>>]

\* mutant: the raw text of the two sides is not compared
alwaysChanged(base, head) == TRUE

\* the test `base.raw != head.raw`
rawDiffers(base, head) == base.raw # head.raw

\* the keys of baseMap whose visit appends a block
baseEmits(baseMap, headMap) ==
    {k \in DOMAIN baseMap : k \in DOMAIN headMap => rawDiffers(baseMap[k], headMap[k])}

\* mutant: the second loop does not look the key up in baseMap
everyHeadKey(baseMap, headMap) == DOMAIN headMap

\* the keys of headMap whose visit appends a block
headEmits(baseMap, headMap) == {k \in DOMAIN headMap : k \notin DOMAIN baseMap}

\* the two maps GenerateDiff builds from its arguments
resourceMaps(baseM, headM) ==
    [base |-> resourceMap(filterHelmHooks(parseManifests(baseM))),
     head |-> resourceMap(filterHelmHooks(parseManifests(headM)))]

\* the block appended at the visit of key k of baseMap
baseBlock(baseMap, headMap, k, now) ==
    IF k \in DOMAIN headMap
    THEN generateResourceDiff(baseMap[k], headMap[k], now[k])
    ELSE deletedBlock(baseMap[k])

\* The two range loops. A Go map is visited in an unspecified order: baseOrder
\* and headOrder are the orders in which the keys that append a block are met,
\* and now[k] is time.Now() during the line diff of key k.
diffMaps(maps, appInfo, baseOrder, headOrder, now) ==
    [result |-> [AppInfo |-> appInfo,
                 Diffs |-> [i \in 1..Len(baseOrder) |->
                               baseBlock(maps.base, maps.head, baseOrder[i], now)]
                           \o [i \in 1..Len(headOrder) |-> addedBlock(maps.head[headOrder[i]])],
                 HasChanges |-> Len(baseOrder) + Len(headOrder) > 0],
     err |-> "nil"]

GenerateDiff(baseM, headM, appInfo, baseOrder, headOrder, now) ==
    diffMaps(resourceMaps(baseM, headM), appInfo, baseOrder, headOrder, now)

-----------------------------------------------------------------------------
(* FormatAppDiff *)

\* Markdown is a sequence of pieces: a fixed piece of the format is one
\* element, a diff block contributes its characters. The glyphs are written
\* by name and the back quote as '.

\* (*AppInfo).StatusEmoji
StatusEmoji(a) ==
    CASE a.Status = "Synced"    -> ":check:"
      [] a.Status = "OutOfSync" -> ":cross:"
      [] OTHER                  -> ":question:"

\* (*AppInfo).HealthEmoji
HealthEmoji(a) ==
    CASE a.Health = "Healthy"     -> ":green-heart:"
      [] a.Health = "Progressing" -> ":arrows:"
      [] a.Health = "Degraded"    -> ":broken-heart:"
      [] a.Health = "Suspended"   -> ":pause:"
      [] OTHER                    -> ":question:"

\* (*AppInfo).ArgoURL: empty without a server, a trailing slash removed
ArgoURL(a) ==
    IF a.Server = <<>> THEN <<>>
    ELSE (IF a.Server[Len(a.Server)] = "/" THEN SubText(a.Server, 1, Len(a.Server) - 1)
          ELSE a.Server)
         \o <<"/applications/", a.Namespace, "/", a.Name>>

\* the ArgoCD link of the full block
argoLink(url) == IF url = <<>> THEN <<>> ELSE <<"[View in ArgoCD](">> \o url \o <<")\n\n">>

\* FormatAppDiff(result)
FormatAppDiff(result) ==
    IF result.ErrorMessage # ""
    THEN <<"### :warning: '", result.AppInfo.Name, "'\n\n", result.ErrorMessage>>
    ELSE IF ~result.HasChanges
    THEN <<"### :check: No changes for '", result.AppInfo.Name, "'\n">>
    ELSE <<"### :memo: '", result.AppInfo.Name, "'\n\n">>
         \o <<"**Status:** ", StatusEmoji(result.AppInfo), " ", result.AppInfo.Status,
              " | **Health:** ", HealthEmoji(result.AppInfo), " ", result.AppInfo.Health, "\n\n">>
         \o argoLink(ArgoURL(result.AppInfo))
         \o Join(result.Diffs, <<"\n", "\n">>)

-----------------------------------------------------------------------------
(* The result deduplicator *)

\* the content fingerprint of a result: the concatenation of its diff blocks
fingerprint(r) == Join(r.Diffs, <<>>)

\* one result of the loop, fp its fingerprint; seen maps a fingerprint to the
\* application name of the canonical result
RECURSIVE dedupFrom(_, _, _)
dedupStep(rs, i, seen, fp) ==
    IF rs[i].ErrorMessage # "" \/ ~rs[i].HasChanges THEN dedupFrom(rs, i + 1, seen)
    ELSE IF fp \in DOMAIN seen
    THEN dedupFrom([rs EXCEPT ![i].DuplicateOf = seen[fp]], i + 1, seen)
    ELSE dedupFrom(rs, i + 1, seen @@ (fp :> rs[i].AppInfo))

dedupFrom(rs, i, seen) ==
    IF i > Len(rs) THEN rs ELSE dedupStep(rs, i, seen, fingerprint(rs[i]))

\* mutant: a later duplicate replaces the canonical result
RECURSIVE dedupLatestFrom(_, _, _)
dedupLatestStep(rs, i, seen, fp) ==
    IF rs[i].ErrorMessage # "" \/ ~rs[i].HasChanges THEN dedupLatestFrom(rs, i + 1, seen)
    ELSE IF fp \in DOMAIN seen
    THEN dedupLatestFrom([rs EXCEPT ![i].DuplicateOf = seen[fp]], i + 1,
                         [seen EXCEPT ![fp] = rs[i].AppInfo])
    ELSE dedupLatestFrom(rs, i + 1, seen @@ (fp :> rs[i].AppInfo))

dedupLatestFrom(rs, i, seen) ==
    IF i > Len(rs) THEN rs ELSE dedupLatestStep(rs, i, seen, fingerprint(rs[i]))

deduplicateLatest(rs) == dedupLatestFrom(rs, 1, << >>)

\* mutant: results with an error or without changes are not skipped
RECURSIVE dedupAllFrom(_, _, _)
dedupAllStep(rs, i, seen, fp) ==
    IF fp \in DOMAIN seen
    THEN dedupAllFrom([rs EXCEPT ![i].DuplicateOf = seen[fp]], i + 1, seen)
    ELSE dedupAllFrom(rs, i + 1, seen @@ (fp :> rs[i].AppInfo))

dedupAllFrom(rs, i, seen) ==
    IF i > Len(rs) THEN rs ELSE dedupAllStep(rs, i, seen, fingerprint(rs[i]))

deduplicateAll(rs) == dedupAllFrom(rs, 1, << >>)

\* deduplicateResults(results)
deduplicateResults(rs) == dedupFrom(rs, 1, << >>)

-----------------------------------------------------------------------------
(* splitComment and chunkString *)

\* A report body is a sequence of runs [sym, n]: n >= 1 repetitions of sym,
\* adjacent runs of different sym. "x" is a character that is neither white
\* space nor part of a closing tag, " " a blank, "\n" a newline, and "D" the
\* ten characters "</details>".
maxCommentSize == 60000
\* the room splitComment leaves for the header of a part
HeaderRoom == 500
\* len("</details>")
TagLen == 10
\* how far back from the chunk boundary chunkString looks for a newline
NewlineWindow == 100

partLimit == maxCommentSize - HeaderRoom

symLen(sym) == IF sym = "D" THEN TagLen ELSE 1

RECURSIVE textLen(_)
textLen(t) == IF Len(t) = 0 THEN 0 ELSE symLen(t[1].sym) * t[1].n + textLen(Tail(t))

\* strings.TrimSpace(t) == ""
isBlank(t) == \A k \in 1..Len(t) : t[k].sym \in {" ", "\n"}

\* regexp `</details>\n*`, Split(body, -1): every closing tag, with the
\* newlines that follow it, ends a section; the text after the last one is
\* the last section
RECURSIVE splitSections(_, _, _, _)
splitSections(t, k, cur, acc) ==
    IF k > Len(t) THEN Append(acc, cur)
    ELSE IF t[k].sym = "D"
    THEN splitSections(t,
                       IF k + 1 <= Len(t) /\ t[k + 1].sym = "\n" THEN k + 2 ELSE k + 1,
                       <<>>,
                       Append(acc, cur) \o [i \in 1..(t[k].n - 1) |-> <<>>])
    ELSE splitSections(t, k + 1, Append(cur, t[k]), acc)

sectionsOf(t) == splitSections(t, 1, <<>>, <<>>)

\* mutant: the closing tag is not added back
fullSectionBare(sections, i) == sections[i]

\* fullSection for sections[i] (1-based): the tag is added back, followed by
\* two newlines, except for the last section
fullSection(sections, i) ==
    IF i < Len(sections)
    THEN sections[i] \o <<[sym |-> "D", n |-> 1], [sym |-> "\n", n |-> 2]>>
    ELSE sections[i]

\* the packing loop and the flush of the last part
RECURSIVE packSections(_, _, _, _)
packStep(sections, i, full, cur, acc) ==
    IF isBlank(full) THEN packSections(sections, i + 1, cur, acc)
    ELSE IF textLen(cur) + textLen(full) > partLimit /\ textLen(cur) > 0
    THEN packSections(sections, i + 1, full, Append(acc, cur))
    ELSE packSections(sections, i + 1, cur \o full, acc)

packSections(sections, i, cur, acc) ==
    IF i > Len(sections)
    THEN IF textLen(cur) > 0 THEN Append(acc, cur) ELSE acc
    ELSE packStep(sections, i, fullSection(sections, i), cur, acc)

\* s[i] == '\n' for the 0-based position i of a text without closing tags
RECURSIVE isNewlineAt(_, _)
isNewlineAt(s, i) ==
    IF Len(s) = 0 THEN FALSE
    ELSE IF i < s[1].n THEN s[1].sym = "\n"
    ELSE isNewlineAt(Tail(s), i - s[1].n)

\* s[:n] and s[n:] for a text without closing tags
RECURSIVE takeChars(_, _)
takeChars(s, n) ==
    IF n <= 0 \/ Len(s) = 0 THEN <<>>
    ELSE IF s[1].n <= n THEN <<s[1]>> \o takeChars(Tail(s), n - s[1].n)
    ELSE <<[sym |-> s[1].sym, n |-> n]>>

RECURSIVE dropChars(_, _)
dropChars(s, n) ==
    IF n <= 0 \/ Len(s) = 0 THEN s
    ELSE IF s[1].n <= n THEN dropChars(Tail(s), n - s[1].n)
    ELSE <<[sym |-> s[1].sym, n |-> s[1].n - n]>> \o Tail(s)

\* the positions the inner loop of chunkString visits that hold a newline
newlinesNear(s, chunkSize) ==
    {i \in (chunkSize - NewlineWindow + 1)..chunkSize : i > 0 /\ isNewlineAt(s, i)}

\* breakPoint: past the last newline found, the chunk size when none is found
breakPointAt(chunkSize, found) ==
    IF found = {} THEN chunkSize
    ELSE (CHOOSE i \in found : \A j \in found : j <= i) + 1

\* chunkString(s, chunkSize)
RECURSIVE chunkString(_, _)
chunkAt(s, chunkSize, breakPoint) ==
    <<takeChars(s, breakPoint)>> \o chunkString(dropChars(s, breakPoint), chunkSize)

chunkString(s, chunkSize) ==
    IF textLen(s) = 0 THEN <<>>
    ELSE IF textLen(s) <= chunkSize THEN <<s>>
    ELSE chunkAt(s, chunkSize, breakPointAt(chunkSize, newlinesNear(s, chunkSize)))

\* the end of splitComment: the parts packed, the chunks if there are none
partsOrChunks(text, packed) ==
    IF Len(packed) = 0 THEN chunkString(text, partLimit) ELSE packed

\* splitComment(body, workflowName)
splitComment(text, workflowName) ==
    IF textLen(text) <= partLimit THEN <<text>>
    ELSE partsOrChunks(text, packSections(sectionsOf(text), 1, <<>>, <<>>))

-----------------------------------------------------------------------------
(* PostComment and DeleteOldComments *)

\* A comment body is a text of runs like a report body; a fixed piece of a
\* format is a run of its own, and "%d" with n = i stands for the numeral of i.
piece(s) == [sym |-> s, n |-> 1]
numeral(i) == [sym |-> "%d", n |-> i]

\* workflowIdentifier(workflowName)
workflowIdentifier(workflowName) ==
    <<piece("<!-- argocd-diff-workflow:"), piece(" "), piece(workflowName), piece(" -->")>>

\* isWorkflowComment(body, workflowName)
isWorkflowComment(text, workflowName) ==
    IndexFrom(text, workflowIdentifier(workflowName), 1) # 0

\* mutant: the part number is the loop index, which starts at 0
partBodyFromZero(ps, i, workflowName) ==
    IF Len(ps) > 1
    THEN <<piece("## ArgoCD Diff Preview (part "), numeral(i - 1), piece(" of "),
           numeral(Len(ps)), piece(")\n\n")>>
         \o workflowIdentifier(workflowName) \o <<piece("\n\n")>> \o ps[i]
    ELSE workflowIdentifier(workflowName) \o <<piece("\n\n")>> \o ps[i]

\* partBody for the part ps[i], i counted from 1
partBody(ps, i, workflowName) ==
    IF Len(ps) > 1
    THEN <<piece("## ArgoCD Diff Preview (part "), numeral(i), piece(" of "),
           numeral(Len(ps)), piece(")\n\n")>>
         \o workflowIdentifier(workflowName) \o <<piece("\n\n")>> \o ps[i]
    ELSE workflowIdentifier(workflowName) \o <<piece("\n\n")>> \o ps[i]

WorkflowName == "wf"

\* how PostComment ends: the error returned and nothing more is done
postReturn(err) ==
    /\ postErr' = err
    /\ postPc' = "done"

\* ListOptions{PerPage: 100}
PerPage == 100

\* the page the service returns for opts.Page: page 0 is page 1
pageAsked(page) == IF page = 0 THEN 1 ELSE page

\* how many of `count` comments lie on page `page`
onPage(count, page) ==
    IF count <= (page - 1) * PerPage THEN 0
    ELSE IF count >= page * PerPage THEN PerPage
    ELSE count - (page - 1) * PerPage

\* DeleteOldComments: ListComments, which can fail; it returns the comments
\* that are on the page asked for at the time of the call, and the number of
\* the next page when there are comments beyond this page
ListComments ==
    /\ postPc = "list"
    /\ \/ /\ postPc' = "delete"
          /\ postCursor' = (pageAsked(optsPage) - 1) * PerPage + 1
          /\ pageLeft' = onPage(Len(prComments), pageAsked(optsPage))
          /\ respNextPage' = IF Len(prComments) > pageAsked(optsPage) * PerPage
                             THEN pageAsked(optsPage) + 1 ELSE 0
          /\ UNCHANGED postErr
       \/ /\ postReturn("delete old comments: list comments")
          /\ UNCHANGED <<postCursor, pageLeft, respNextPage>>
    /\ UNCHANGED <<prComments, postBody, postParts, optsPage, lineVars, genVars, dedupVars, segVars, fmtVars, collVars, jobVars, poolVars, limVars, retryVars, hookVars, chunkVars>>

\* DeleteOldComments: the next comment of the listed page is skipped when it
\* is not of the workflow, and deleted otherwise, which can fail
CheckComment ==
    /\ postPc = "delete"
    /\ pageLeft > 0
    /\ IF isWorkflowComment(prComments[postCursor], WorkflowName)
       THEN \/ /\ prComments' = SubText(prComments, 1, postCursor - 1)
                                \o SubText(prComments, postCursor + 1, Len(prComments))
               /\ pageLeft' = pageLeft - 1
               /\ UNCHANGED <<postCursor, postErr, postPc>>
            \/ /\ postReturn("delete old comments: delete comment")
               /\ UNCHANGED <<prComments, postCursor, pageLeft>>
       ELSE /\ postCursor' = postCursor + 1
            /\ pageLeft' = pageLeft - 1
            /\ UNCHANGED <<prComments, postErr, postPc>>
    /\ UNCHANGED <<postBody, postParts, optsPage, respNextPage, lineVars, genVars, dedupVars, segVars, fmtVars, collVars, jobVars, poolVars, limVars, retryVars, hookVars, chunkVars>>

\* DeleteOldComments: the page is done and there is a next one
TurnPage ==
    /\ postPc = "delete"
    /\ pageLeft = 0
    /\ respNextPage # 0
    /\ optsPage' = respNextPage
    /\ postPc' = "list"
    /\ UNCHANGED <<prComments, postBody, postParts, postCursor, postErr, pageLeft, respNextPage, lineVars, genVars, dedupVars, segVars, fmtVars, collVars, jobVars, poolVars, limVars, retryVars, hookVars, chunkVars>>

\* DeleteOldComments has returned nil: parts := splitComment(body, workflowName)
SplitBody ==
    /\ postPc = "delete"
    /\ pageLeft = 0
    /\ respNextPage = 0
    /\ postParts' = splitComment(postBody, WorkflowName)
    /\ postCursor' = 1
    /\ postPc' = "create"
    /\ UNCHANGED <<optsPage, pageLeft, respNextPage, prComments, postBody, postErr, lineVars, genVars, dedupVars, segVars, fmtVars, collVars, jobVars, poolVars, limVars, retryVars, hookVars, chunkVars>>

\* one iteration of the loop over parts: CreateComment, which can fail
CreateComment ==
    /\ postPc = "create"
    /\ postCursor <= Len(postParts)
    /\ \/ /\ prComments' = Append(prComments, partBody(postParts, postCursor, WorkflowName))
          /\ postCursor' = postCursor + 1
          /\ UNCHANGED <<postErr, postPc>>
       \/ /\ postReturn("create comment part")
          /\ UNCHANGED <<prComments, postCursor>>
    /\ UNCHANGED <<optsPage, pageLeft, respNextPage, postBody, postParts, lineVars, genVars, dedupVars, segVars, fmtVars, collVars, jobVars, poolVars, limVars, retryVars, hookVars, chunkVars>>

\* the loop over parts has ended: return nil
ReturnNil ==
    /\ postPc = "create"
    /\ postCursor > Len(postParts)
    /\ postReturn("nil")
    /\ UNCHANGED <<optsPage, pageLeft, respNextPage, prComments, postBody, postParts, postCursor, lineVars, genVars, dedupVars, segVars, fmtVars, collVars, jobVars, poolVars, limVars, retryVars, hookVars, chunkVars>>

-----------------------------------------------------------------------------
(* The collapse transform on the parts of a report *)

\* A part is a sequence of tokens here: "O" is "<details open>", "T" is
\* "<details>", "D" is "</details>" and "x" is other text.

\* strings.ReplaceAll(part, "<details open>", "<details>")
replaceAllOpen(part) == [k \in 1..Len(part) |-> IF part[k] = "O" THEN "T" ELSE part[k]]

\* mutant: the parts are collapsed as soon as their number reaches the threshold
collapseFromThreshold(ps, threshold) ==
    IF threshold > 0 /\ Len(ps) >= threshold
    THEN [i \in 1..Len(ps) |-> replaceAllOpen(ps[i])]
    ELSE ps

\* the transform: every part rewritten when the threshold is positive and the
\* number of parts exceeds it
collapseParts(ps, threshold) ==
    IF threshold > 0 /\ Len(ps) > threshold
    THEN [i \in 1..Len(ps) |-> replaceAllOpen(ps[i])]
    ELSE ps

-----------------------------------------------------------------------------
(* The line differ run on bounded inputs *)

\* line texts; "a" and "q" have the same hash when HashBits <= 4
LineTexts == {<<"a">>, <<"b">>, <<"q">>}

LineSeqs == SeqsUpTo(LineTexts, MaxLines)

Clock == 0..MaxClock

\* genResult before GenerateDiff has returned
NoResult == [result |-> [AppInfo |-> "", Diffs |-> <<>>, HasChanges |-> FALSE], err |-> "none"]

GenIdle ==
    /\ baseManifests = <<>> /\ headManifests = <<>>
    /\ genResult = NoResult /\ genAgain = NoResult /\ genPc = "idle"

LineIdle ==
    /\ oldLines = <<>> /\ newLines = <<>>
    /\ diffLines = <<>> /\ diffText = <<>> /\ diffPc = "idle"

DedupIdle == results = <<>> /\ deduped = <<>> /\ dedupPc = "idle"

SegIdle == body = <<>> /\ parts = <<>> /\ segPc = "idle"

FmtIdle ==
    fmtResult = <<>> /\ fmtText = <<>> /\ fmtPc = "idle"

PostIdle ==
    /\ prComments = <<>> /\ postBody = <<>> /\ postParts = <<>>
    /\ postCursor = 0 /\ postErr = "nil" /\ postPc = "idle"
    /\ optsPage = 0 /\ pageLeft = 0 /\ respNextPage = 0

CollIdle ==
    collParts = <<>> /\ collThreshold = 0 /\ collOut = <<>> /\ collPc = "idle"

JobIdle ==
    /\ affectedApps = <<>> /\ jobCursor = 0 /\ diffResults = <<>>
    /\ jobReport = <<>> /\ jobPc = "idle"

PoolIdle ==
    /\ queueSize = 0 /\ workerCount = 0 /\ jobQueue = <<>>
    /\ draining = FALSE /\ done = FALSE /\ submitPc = <<>>
    /\ workerPc = <<>> /\ workerJob = <<>> /\ handed = <<>> /\ stopPc = "idle"

LimIdle ==
    /\ rate = 0 /\ window = 0 /\ wallClock = 0 /\ mu = 0 /\ limits = <<>>
    /\ callerKey = <<>> /\ windowStart = <<>> /\ granted = <<>> /\ lastCall = <<>>

RetryIdle ==
    /\ retrySite = "" /\ retryI = 0 /\ retryPc = "idle" /\ waitLeft = 0
    /\ cancelled = FALSE /\ retryErr = <<>> /\ fnResults = <<>> /\ cancelledInWait = FALSE

HookIdle ==
    /\ allowlist = <<>> /\ hookQueue = <<>> /\ hookRequest = <<>> /\ hookStatus = 0

ChunkIdle ==
    chunkInput = <<>> /\ chunkLimit = 0 /\ chunks = <<>> /\ chunkPc = "idle"

LineInit ==
    /\ oldLines \in LineSeqs
    /\ newLines \in LineSeqs
    /\ diffLines = <<>>
    /\ diffText = <<>>
    /\ diffPc = "ready"
    /\ GenIdle /\ DedupIdle /\ SegIdle /\ FmtIdle /\ PostIdle /\ CollIdle /\ JobIdle /\ PoolIdle /\ LimIdle /\ RetryIdle /\ HookIdle /\ ChunkIdle

\* one call generateUnifiedDiff(oldLines, newLines, filename, 3)
RunLineDiff ==
    /\ diffPc = "ready"
    /\ \E now \in Clock :
         /\ diffText' = generateUnifiedDiff(oldLines, newLines, <<"f">>, ContextLines, now)
         /\ diffLines' = IF identicalLines(oldLines, newLines) THEN <<>>
                         ELSE buildDiffLines(oldLines, newLines)
    /\ diffPc' = "done"
    /\ UNCHANGED <<oldLines, newLines, genVars, dedupVars, segVars, fmtVars, postVars, collVars, jobVars, poolVars, limVars, retryVars, hookVars, chunkVars>>

SpecLine == LineInit /\ [][RunLineDiff]_vars

\* files long enough for a diff of several hunks: `before` is the first n lines
\* of FileLines, all different, and `after` is `before` after at most MaxEdits
\* edits, each the deletion of a line or the insertion of a new line or of a
\* copy of the first line
FileLines ==
    <<<<"a">>, <<"b">>, <<"h">>, <<"k">>, <<"n">>, <<"p">>, <<"q">>, <<"r">>, <<"s">>, <<"v">>,
      <<"A">>, <<"B">>>>

OneEdit(x) ==
    {SubText(x, 1, p - 1) \o SubText(x, p + 1, Len(x)) : p \in 1..Len(x)}
    \cup {SubText(x, 1, p - 1) \o <<t>> \o SubText(x, p, Len(x)) :
             p \in 1..(Len(x) + 1), t \in {<<"1">>, <<"a">>}}

RECURSIVE EditedUpTo(_, _)
EditedUpTo(x, n) ==
    IF n = 0 THEN {x}
    ELSE LET fewer == EditedUpTo(x, n - 1)
         IN  fewer \cup UNION {OneEdit(y) : y \in fewer}

HunkInit ==
    /\ \E n \in 0..MaxFileLines :
         /\ oldLines = SubText(FileLines, 1, n)
         /\ newLines \in EditedUpTo(SubText(FileLines, 1, n), MaxEdits)
    /\ diffLines = <<>>
    /\ diffText = <<>>
    /\ diffPc = "ready"
    /\ GenIdle /\ DedupIdle /\ SegIdle /\ FmtIdle /\ PostIdle /\ CollIdle /\ JobIdle /\ PoolIdle /\ LimIdle /\ RetryIdle /\ HookIdle /\ ChunkIdle

SpecHunk == HunkInit /\ [][RunLineDiff]_vars

-----------------------------------------------------------------------------
(* GenerateDiff run on bounded inputs *)

Lines(ls) == Join(ls, <<"\n">>)
Docs(ds)  == Join(ds, DocSeparator)

\* ConfigMap A with replicas 2 and 3, ConfigMap B in namespace q, the hook Job H
\* in two versions, a Job with the key of H and no hook annotation, a document
\* that does not parse and one without a name
DocA2      == Lines(<<<<"v", "1">>, <<"k", "C">>, <<"n", "A">>, <<"r", "2">>>>)
DocA3      == Lines(<<<<"v", "1">>, <<"k", "C">>, <<"n", "A">>, <<"r", "3">>>>)
DocB       == Lines(<<<<"v", "1">>, <<"k", "C">>, <<"s", "q">>, <<"n", "B">>>>)
DocH2      == Lines(<<<<"v", "1">>, <<"k", "J">>, <<"n", "H">>, <<"h", "p">>, <<"r", "2">>>>)
DocH3      == Lines(<<<<"v", "1">>, <<"k", "J">>, <<"n", "H">>, <<"h", "p">>, <<"r", "3">>>>)
DocPlainH  == Lines(<<<<"v", "1">>, <<"k", "J">>, <<"n", "H">>>>)
DocBad     == Lines(<<<<"v", "1">>, <<"!">>>>)
DocNoName  == Lines(<<<<"v", "1">>, <<"k", "C">>>>)
JsonA2     == <<"{">> \o Join(<<<<"v", "1">>, <<"k", "C">>, <<"n", "A">>, <<"r", "2">>>>, <<",">>)
              \o <<"}">>
JsonBad    == <<"{", "!">>

ManifestTexts ==
    { <<" ", "\n">>,
      DocA2,
      DocA3,
      <<" ">> \o Docs(<<DocA2, DocB>>) \o <<"\n">>,
      Docs(<<DocBad, DocB>>),
      Docs(<<DocA3, DocNoName, DocB>>),
      DocH2,
      Docs(<<DocH3, DocB>>),
      Docs(<<DocA2, DocA3>>),
      Docs(<<DocH2, DocPlainH, DocA3>>),
      JsonA2,
      Docs(<<JsonBad, DocB>>) }

ManifestLists == SeqsUpTo(ManifestTexts, MaxManifests)

AppName == "app"

GenInit ==
    /\ baseManifests \in ManifestLists
    /\ headManifests \in ManifestLists
    /\ genResult = NoResult
    /\ genAgain = NoResult
    /\ genPc = "ready"
    /\ LineIdle /\ DedupIdle /\ SegIdle /\ FmtIdle /\ PostIdle /\ CollIdle /\ JobIdle /\ PoolIdle /\ LimIdle /\ RetryIdle /\ HookIdle /\ ChunkIdle

\* the instants of successive calls of time.Now() do not decrease
nonDecreasing(order, now) ==
    \A i, j \in 1..Len(order) : i <= j => now[order[i]] <= now[order[j]]

\* one call GenerateDiff(baseManifests, headManifests, appInfo)
RunGenerateDiff ==
    /\ genPc = "ready"
    /\ \E maps \in {resourceMaps(baseManifests, headManifests)} :
       \E baseOrder \in Perms(baseEmits(maps.base, maps.head)) :
       \E headOrder \in Perms(headEmits(maps.base, maps.head)) :
       \E now \in [Range(baseOrder) -> Clock] :
           /\ nonDecreasing(baseOrder, now)
           /\ genResult' = GenerateDiff(baseManifests, headManifests, AppName,
                                        baseOrder, headOrder, now)
    /\ genPc' = "done"
    /\ UNCHANGED <<baseManifests, headManifests, genAgain, lineVars, dedupVars, segVars, fmtVars, postVars, collVars, jobVars, poolVars, limVars, retryVars, hookVars, chunkVars>>

SpecGen == GenInit /\ [][RunGenerateDiff]_vars

\* a second call GenerateDiff(baseManifests, headManifests, appInfo) with the
\* arguments of the first: the maps are iterated in an order of their own and
\* the clock is read again
RunGenerateDiffAgain ==
    /\ genPc = "done"
    /\ \E maps \in {resourceMaps(baseManifests, headManifests)} :
       \E baseOrder \in Perms(baseEmits(maps.base, maps.head)) :
       \E headOrder \in Perms(headEmits(maps.base, maps.head)) :
       \E now \in [Range(baseOrder) -> Clock] :
           /\ nonDecreasing(baseOrder, now)
           /\ genAgain' = GenerateDiff(baseManifests, headManifests, AppName,
                                       baseOrder, headOrder, now)
    /\ genPc' = "again"
    /\ UNCHANGED <<baseManifests, headManifests, genResult, lineVars, dedupVars, segVars, fmtVars, postVars, collVars, jobVars, poolVars, limVars, retryVars, hookVars, chunkVars>>

SpecGenTwice == GenInit /\ [][RunGenerateDiff \/ RunGenerateDiffAgain]_vars

-----------------------------------------------------------------------------
(* deduplicateResults run on bounded inputs *)

AppNames == <<"app1", "app2", "app3", "app4">>

\* rendered diff blocks; the first two lists have the same concatenation
DiffLists ==
    { <<>>,
      <<<<"a">>, <<"b">>>>,
      <<<<"a", "b">>>>,
      <<<<"b">>>> }

\* the results a job can hold for its i-th application: without an error
\* HasChanges tells whether there are diff blocks
ResultsOf(i) ==
    {[AppInfo |-> AppNames[i], Diffs |-> d, HasChanges |-> d # <<>>,
      ErrorMessage |-> "", DuplicateOf |-> ""] : d \in DiffLists}
    \cup
    {[AppInfo |-> AppNames[i], Diffs |-> d, HasChanges |-> h,
      ErrorMessage |-> "e", DuplicateOf |-> ""] : d \in DiffLists, h \in BOOLEAN}

\* the lists of exactly n results, the i-th for the i-th application
RECURSIVE ResultListsOf(_)
ResultListsOf(n) ==
    IF n = 0 THEN {<<>>}
    ELSE {Append(rs, r) : rs \in ResultListsOf(n - 1), r \in ResultsOf(n)}

ResultLists == UNION {ResultListsOf(n) : n \in 0..MaxResults}

DedupInit ==
    /\ results \in ResultLists
    /\ deduped = <<>>
    /\ dedupPc = "ready"
    /\ LineIdle /\ GenIdle /\ SegIdle /\ FmtIdle /\ PostIdle /\ CollIdle /\ JobIdle /\ PoolIdle /\ LimIdle /\ RetryIdle /\ HookIdle /\ ChunkIdle

\* one call deduplicateResults(results)
RunDeduplicate ==
    /\ dedupPc = "ready"
    /\ deduped' = deduplicateResults(results)
    /\ dedupPc' = "done"
    /\ UNCHANGED <<results, lineVars, genVars, segVars, fmtVars, postVars, collVars, jobVars, poolVars, limVars, retryVars, hookVars, chunkVars>>

SpecDedup == DedupInit /\ [][RunDeduplicate]_vars

-----------------------------------------------------------------------------
(* splitComment run on bounded inputs *)

\* the runs a body is made of: a resource diff that fits twice in a part only
\* without its closing tag, one larger than a part, short text, blanks,
\* newlines and closing tags
BodyRuns ==
    {[sym |-> "x", n |-> k] : k \in {1, 29739, 70000}}
    \cup {[sym |-> " ", n |-> k] : k \in {1, 59500}}
    \cup {[sym |-> "\n", n |-> k] : k \in {1, 3}}
    \cup {[sym |-> "D", n |-> k] : k \in {1, 2}}

Bodies ==
    {t \in SeqsUpTo(BodyRuns, MaxRuns) :
        \A k \in 1..(Len(t) - 1) : t[k].sym # t[k + 1].sym}

SegInit ==
    /\ body \in Bodies
    /\ parts = <<>>
    /\ segPc = "ready"
    /\ LineIdle /\ GenIdle /\ DedupIdle /\ FmtIdle /\ PostIdle /\ CollIdle /\ JobIdle /\ PoolIdle /\ LimIdle /\ RetryIdle /\ HookIdle /\ ChunkIdle

\* one call splitComment(body, workflowName)
RunSplitComment ==
    /\ segPc = "ready"
    /\ parts' = splitComment(body, "wf")
    /\ segPc' = "done"
    /\ UNCHANGED <<body, lineVars, genVars, dedupVars, fmtVars, postVars, collVars, jobVars, poolVars, limVars, retryVars, hookVars, chunkVars>>

SpecSeg == SegInit /\ [][RunSplitComment]_vars

-----------------------------------------------------------------------------
(* chunkString run on bounded inputs *)

\* a string given character by character, as a text of runs
RECURSIVE packRuns(_)
packRuns(chars) ==
    IF Len(chars) = 0 THEN <<>>
    ELSE LET rest == packRuns(Tail(chars))
         IN  IF Len(rest) > 0 /\ rest[1].sym = chars[1]
             THEN <<[sym |-> chars[1], n |-> rest[1].n + 1]>> \o Tail(rest)
             ELSE <<[sym |-> chars[1], n |-> 1]>> \o rest

\* every string of up to MaxTextLen characters, each "x" or a newline
ChunkTexts == {packRuns(c) : c \in SeqsUpTo({"x", "\n"}, MaxTextLen)}

ChunkInit ==
    /\ chunkInput \in ChunkTexts
    /\ chunkLimit \in 1..MaxChunkSize
    /\ chunks = <<>>
    /\ chunkPc = "ready"
    /\ GenIdle /\ LineIdle /\ DedupIdle /\ SegIdle /\ FmtIdle /\ PostIdle /\ CollIdle /\ JobIdle /\ PoolIdle /\ LimIdle /\ RetryIdle /\ HookIdle

\* one call chunkString(s, chunkLimit)
RunChunkString ==
    /\ chunkPc = "ready"
    /\ chunks' = chunkString(chunkInput, chunkLimit)
    /\ chunkPc' = "done"
    /\ UNCHANGED <<chunkInput, chunkLimit>>
    /\ UNCHANGED <<lineVars, genVars, dedupVars, segVars, fmtVars, postVars, collVars, jobVars, poolVars, limVars, retryVars, hookVars>>

SpecChunk == ChunkInit /\ [][RunChunkString]_vars

-----------------------------------------------------------------------------
(* FormatAppDiff run on bounded inputs *)

AppInfos ==
    [Name : {"app2"}, Namespace : {"argocd"}, Server : {<<>>, <<"u">>, <<"u", "/">>},
     Status : {"Synced", "OutOfSync", "Unknown"}, Health : {"Healthy", "Degraded", "Missing"}]

\* the DiffResults handed to FormatAppDiff: without an error HasChanges tells
\* whether there are diff blocks; DuplicateOf is the field the deduplicator
\* sets, on results with changes and without error
FormatInputs ==
    {r \in [AppInfo : AppInfos, Diffs : DiffLists, HasChanges : BOOLEAN,
            ErrorMessage : {"", "e"}, DuplicateOf : {"", "app1"}] :
        /\ r.ErrorMessage = "" => (r.HasChanges <=> r.Diffs # <<>>)
        /\ r.DuplicateOf # "" => (r.ErrorMessage = "" /\ r.HasChanges)}

FmtInit ==
    /\ fmtResult \in FormatInputs
    /\ fmtText = <<>>
    /\ fmtPc = "ready"
    /\ GenIdle /\ LineIdle /\ DedupIdle /\ SegIdle /\ PostIdle /\ CollIdle /\ JobIdle /\ PoolIdle /\ LimIdle /\ RetryIdle /\ HookIdle /\ ChunkIdle

\* one call FormatAppDiff(result)
RunFormatAppDiff ==
    /\ fmtPc = "ready"
    /\ fmtText' = FormatAppDiff(fmtResult)
    /\ fmtPc' = "done"
    /\ UNCHANGED <<fmtResult, lineVars, genVars, dedupVars, segVars, postVars, collVars, jobVars, poolVars, limVars, retryVars, hookVars, chunkVars>>

SpecFormat == FmtInit /\ [][RunFormatAppDiff]_vars

-----------------------------------------------------------------------------
(* PostComment run on bounded inputs *)

Resource29739 == [sym |-> "x", n |-> 29739]

\* report bodies that splitComment returns as one, two and three parts (two
\* sections with their closing tags exceed a part, a section and the last one fit)
PostBodies ==
    { <<piece("x")>>,
      <<Resource29739, piece("D"), Resource29739, piece("D"), Resource29739>>,
      <<Resource29739, piece("D"), Resource29739, piece("D"),
        Resource29739, piece("D"), Resource29739>> }

\* comments found on the pull request: one left by this workflow, one by
\* another workflow, one by somebody else
OldComments ==
    { workflowIdentifier(WorkflowName) \o <<piece("\n\n"), piece("x")>>,
      <<piece("## ArgoCD Diff Preview (part "), numeral(2), piece(" of "), numeral(2),
        piece(")\n\n")>> \o workflowIdentifier("other") \o <<piece("\n\n"), piece("x")>>,
      <<piece("x")>> }

\* pull requests with one comment more than a page holds: a first and a last
\* comment of any kind and comments of somebody else between them
LongLists ==
    {<<first>> \o [k \in 1..(PerPage - 1) |-> <<piece("x")>>] \o <<last>> :
        first \in OldComments, last \in OldComments}

PostInit ==
    /\ prComments \in SeqsUpTo(OldComments, MaxOldComments) \cup LongLists
    /\ postBody \in PostBodies
    /\ postParts = <<>>
    /\ postCursor = 0
    /\ postErr = "nil"
    /\ postPc = "list"
    /\ optsPage = 0 /\ pageLeft = 0 /\ respNextPage = 0
    /\ GenIdle /\ LineIdle /\ DedupIdle /\ SegIdle /\ FmtIdle /\ CollIdle /\ JobIdle /\ PoolIdle /\ LimIdle /\ RetryIdle /\ HookIdle /\ ChunkIdle

\* one call PostComment(ctx, prNumber, body, workflowName)
SpecPost ==
    PostInit /\ [][ListComments \/ CheckComment \/ TurnPage \/ SplitBody \/ CreateComment \/ ReturnNil]_vars

-----------------------------------------------------------------------------
(* The collapse transform run on bounded inputs *)

PartTexts ==
    { <<"O", "x", "D">>, <<"T", "x", "D">>, <<"x">>, <<"O", "x", "D", "O", "T", "D">> }

CollInit ==
    /\ collParts \in SeqsUpTo(PartTexts, MaxParts)
    /\ collThreshold \in 0..MaxThreshold
    /\ collOut = <<>>
    /\ collPc = "ready"
    /\ GenIdle /\ LineIdle /\ DedupIdle /\ SegIdle /\ FmtIdle /\ PostIdle /\ JobIdle /\ PoolIdle /\ LimIdle /\ RetryIdle /\ HookIdle /\ ChunkIdle

\* the transform applied to the parts before they are posted
RunCollapse ==
    /\ collPc = "ready"
    /\ collOut' = collapseParts(collParts, collThreshold)
    /\ collPc' = "done"
    /\ UNCHANGED <<collParts, collThreshold, lineVars, genVars, dedupVars, segVars, fmtVars, postVars, jobVars, poolVars, limVars, retryVars, hookVars, chunkVars>>

SpecCollapse == CollInit /\ [][RunCollapse]_vars

-----------------------------------------------------------------------------
(* processJob: the loop over the affected applications *)

\* &diff.DiffResult{AppInfo: appInfo, ErrorMessage: msg}
errorResult(appInfo, msg) ==
    [AppInfo |-> appInfo, Diffs |-> <<>>, HasChanges |-> FALSE, ErrorMessage |-> msg]

\* what diff.GenerateDiff can return for these manifests: one value for every
\* iteration order of the two maps and every reading of the clock
diffOutcomes(baseM, headM, appInfo) ==
    UNION {UNION {{GenerateDiff(baseM, headM, appInfo, baseOrder, headOrder, now) :
                      now \in {f \in [Range(baseOrder) -> Clock] : nonDecreasing(baseOrder, f)}} :
                  baseOrder \in Perms(baseEmits(maps.base, maps.head)),
                  headOrder \in Perms(headEmits(maps.base, maps.head))} :
           maps \in {resourceMaps(baseM, headM)}}

\* the result appended after diff.GenerateDiff returned
diffResultOf(appInfo, returned) ==
    IF returned.err # "nil"
    THEN errorResult(appInfo, "Failed to generate diff")
    ELSE [AppInfo |-> returned.result.AppInfo, Diffs |-> returned.result.Diffs,
          HasChanges |-> returned.result.HasChanges, ErrorMessage |-> ""]

\* diff.NewDiffReport(workflowName, results)
NewDiffReport(workflowName, rs) ==
    [WorkflowName |-> workflowName, TotalApps |-> Len(rs),
     AppsWithDiffs |-> Cardinality({i \in 1..Len(rs) : rs[i].HasChanges}), Results |-> rs]

\* mutant: the job is given up at the first application that fails
abortJob(appInfo, msg) ==
    /\ jobPc' = "done"
    /\ UNCHANGED <<jobCursor, diffResults, poolVars, limVars, retryVars, hookVars, chunkVars>>

\* a failed application: its error result is appended and the loop continues
appendError(appInfo, msg) ==
    /\ diffResults' = Append(diffResults, errorResult(appInfo, msg))
    /\ jobCursor' = jobCursor + 1
    /\ UNCHANGED jobPc

\* GetManifests (GetMultiSourceManifests) fails for the base revision
FetchBaseFails ==
    /\ jobPc = "loop" /\ jobCursor <= Len(affectedApps)
    /\ appendError(affectedApps[jobCursor], "Failed to get base manifests")
    /\ UNCHANGED <<affectedApps, jobReport, lineVars, genVars, dedupVars, segVars, fmtVars, postVars, collVars, poolVars, limVars, retryVars, hookVars, chunkVars>>

\* the base manifests are fetched, fetching the head manifests fails
FetchHeadFails ==
    /\ jobPc = "loop" /\ jobCursor <= Len(affectedApps)
    /\ appendError(affectedApps[jobCursor], "Failed to get head manifests")
    /\ UNCHANGED <<affectedApps, jobReport, lineVars, genVars, dedupVars, segVars, fmtVars, postVars, collVars, poolVars, limVars, retryVars, hookVars, chunkVars>>

\* both fetches succeed and diff.GenerateDiff is called
DiffApp ==
    /\ jobPc = "loop" /\ jobCursor <= Len(affectedApps)
    /\ \E baseM \in {<<DocA2>>}, headM \in {<<DocA2>>, <<DocA3>>, <<Docs(<<DocA3, DocB>>)>>} :
       \E returned \in diffOutcomes(baseM, headM, affectedApps[jobCursor]) :
           diffResults' = Append(diffResults, diffResultOf(affectedApps[jobCursor], returned))
    /\ jobCursor' = jobCursor + 1
    /\ UNCHANGED <<affectedApps, jobReport, jobPc, lineVars, genVars, dedupVars, segVars, fmtVars, postVars, collVars, poolVars, limVars, retryVars, hookVars, chunkVars>>

\* after the loop: the report is built and handed to PostComment
PostReport ==
    /\ jobPc = "loop" /\ jobCursor > Len(affectedApps)
    /\ jobReport' = NewDiffReport(WorkflowName, diffResults)
    /\ jobPc' = "done"
    /\ UNCHANGED <<affectedApps, jobCursor, diffResults, lineVars, genVars, dedupVars, segVars, fmtVars, postVars, collVars, poolVars, limVars, retryVars, hookVars, chunkVars>>

-----------------------------------------------------------------------------
(* Worker pool (src/pkg/worker/pool.go).  Every job is submitted by its own
   goroutine, at most once; a step is one access to the shared state: the
   atomic flag, a channel operation, the close of a channel. *)

Jobs == 1..MaxJobs

\* the outcome of `select { case p.jobQueue <- job: ... default: ... }`: the
\* send succeeds exactly when the channel buffer has room
sendAlways(queue, size, job) ==
    [queue |-> Append(queue, job), ok |-> TRUE]

trySend(queue, size, job) ==
    IF Len(queue) < size
    THEN [queue |-> Append(queue, job), ok |-> TRUE]
    ELSE [queue |-> queue, ok |-> FALSE]

\* Start launches workerCount worker goroutines
Start ==
    /\ workerCount > 0
    /\ \A w \in 1..workerCount : workerPc[w] = "new"
    /\ workerPc' = [w \in 1..workerCount |-> "select"]
    /\ UNCHANGED <<queueSize, workerCount, jobQueue, draining, done, submitPc, workerJob, handed, stopPc, limVars, retryVars, hookVars, chunkVars>>
    /\ UNCHANGED <<lineVars, genVars, dedupVars, segVars, fmtVars, postVars, collVars, jobVars, limVars, retryVars, hookVars, chunkVars>>

\* Submit, first step: p.draining.Load()
SubmitLoad(j) ==
    /\ submitPc[j] = "idle"
    /\ submitPc' = [submitPc EXCEPT ![j] = IF draining THEN "false" ELSE "loaded"]
    /\ UNCHANGED <<queueSize, workerCount, jobQueue, draining, done, workerPc, workerJob, handed, stopPc, limVars, retryVars, hookVars, chunkVars>>
    /\ UNCHANGED <<lineVars, genVars, dedupVars, segVars, fmtVars, postVars, collVars, jobVars, limVars, retryVars, hookVars, chunkVars>>

\* Submit, second step: the non-blocking send and the return
SubmitSend(j) ==
    /\ submitPc[j] = "loaded"
    /\ \E sent \in {trySend(jobQueue, queueSize, j)} :
         /\ jobQueue' = sent.queue
         /\ submitPc' = [submitPc EXCEPT ![j] = IF sent.ok THEN "true" ELSE "false"]
    /\ UNCHANGED <<queueSize, workerCount, draining, done, workerPc, workerJob, handed, stopPc, limVars, retryVars, hookVars, chunkVars>>
    /\ UNCHANGED <<lineVars, genVars, dedupVars, segVars, fmtVars, postVars, collVars, jobVars, limVars, retryVars, hookVars, chunkVars>>

\* Stop, first step: p.draining.Store(true)
StopStoreDraining ==
    /\ stopPc = "idle"
    /\ draining' = TRUE
    /\ stopPc' = "stored"
    /\ UNCHANGED <<queueSize, workerCount, jobQueue, done, submitPc, workerPc, workerJob, handed, limVars, retryVars, hookVars, chunkVars>>
    /\ UNCHANGED <<lineVars, genVars, dedupVars, segVars, fmtVars, postVars, collVars, jobVars, limVars, retryVars, hookVars, chunkVars>>

\* Stop, second step: close(p.done)
StopCloseDone ==
    /\ stopPc = "stored"
    /\ done' = TRUE
    /\ stopPc' = "closed"
    /\ UNCHANGED <<queueSize, workerCount, jobQueue, draining, submitPc, workerPc, workerJob, handed, limVars, retryVars, hookVars, chunkVars>>
    /\ UNCHANGED <<lineVars, genVars, dedupVars, segVars, fmtVars, postVars, collVars, jobVars, limVars, retryVars, hookVars, chunkVars>>

\* Stop, last step: it returns when every worker has exited or when the
\* timeout fires, whichever comes first
StopReturn ==
    /\ stopPc = "closed"
    /\ stopPc' = "returned"
    /\ UNCHANGED <<queueSize, workerCount, jobQueue, draining, done, submitPc, workerPc, workerJob, handed, limVars, retryVars, hookVars, chunkVars>>
    /\ UNCHANGED <<lineVars, genVars, dedupVars, segVars, fmtVars, postVars, collVars, jobVars, limVars, retryVars, hookVars, chunkVars>>

\* worker: the select takes `case <-p.done` (ready once done is closed)
WorkerDone(w) ==
    /\ workerPc[w] = "select"
    /\ done
    /\ workerPc' = [workerPc EXCEPT ![w] = "exit"]
    /\ UNCHANGED <<queueSize, workerCount, jobQueue, draining, done, submitPc, workerJob, handed, stopPc, limVars, retryVars, hookVars, chunkVars>>
    /\ UNCHANGED <<lineVars, genVars, dedupVars, segVars, fmtVars, postVars, collVars, jobVars, limVars, retryVars, hookVars, chunkVars>>

\* worker: the select takes `case job, ok := <-p.jobQueue` (ready while a job is
\* buffered; the channel is never closed, so ok is true) and calls the processor
WorkerReceive(w) ==
    /\ workerPc[w] = "select"
    /\ jobQueue /= <<>>
    /\ jobQueue' = Tail(jobQueue)
    /\ workerJob' = [workerJob EXCEPT ![w] = Head(jobQueue)]
    /\ handed' = [handed EXCEPT ![Head(jobQueue)] = @ + 1]
    /\ workerPc' = [workerPc EXCEPT ![w] = "run"]
    /\ UNCHANGED <<queueSize, workerCount, draining, done, submitPc, stopPc, limVars, retryVars, hookVars, chunkVars>>
    /\ UNCHANGED <<lineVars, genVars, dedupVars, segVars, fmtVars, postVars, collVars, jobVars, limVars, retryVars, hookVars, chunkVars>>

\* worker: the processor returns and the loop goes back to the select
WorkerFinish(w) ==
    /\ workerPc[w] = "run"
    /\ workerJob' = [workerJob EXCEPT ![w] = 0]
    /\ workerPc' = [workerPc EXCEPT ![w] = "select"]
    /\ UNCHANGED <<queueSize, workerCount, jobQueue, draining, done, submitPc, handed, stopPc, limVars, retryVars, hookVars, chunkVars>>
    /\ UNCHANGED <<lineVars, genVars, dedupVars, segVars, fmtVars, postVars, collVars, jobVars, limVars, retryVars, hookVars, chunkVars>>

\* the state NewPool(workerCount, queueSize, processor) returns
PoolInit ==
    /\ queueSize \in 1..MaxQueueSize
    /\ workerCount \in 1..MaxWorkers
    /\ jobQueue = <<>>
    /\ draining = FALSE
    /\ done = FALSE
    /\ submitPc = [j \in Jobs |-> "idle"]
    /\ workerPc = [w \in 1..workerCount |-> "new"]
    /\ workerJob = [w \in 1..workerCount |-> 0]
    /\ handed = [j \in Jobs |-> 0]
    /\ stopPc = "idle"
    /\ GenIdle /\ LineIdle /\ DedupIdle /\ SegIdle /\ FmtIdle /\ PostIdle /\ CollIdle /\ JobIdle /\ LimIdle /\ RetryIdle /\ HookIdle /\ ChunkIdle

PoolNext ==
    \/ Start
    \/ \E j \in Jobs : SubmitLoad(j) \/ SubmitSend(j)
    \/ StopStoreDraining \/ StopCloseDone \/ StopReturn
    \/ \E w \in 1..workerCount : WorkerDone(w) \/ WorkerReceive(w) \/ WorkerFinish(w)

SpecPool == PoolInit /\ [][PoolNext]_vars

\* the scheduler runs every goroutine that can take a step: the submitters and
\* the workers; when Stop is called, if ever, is up to the caller
PoolFairness ==
    /\ WF_vars(Start)
    /\ \A j \in Jobs : WF_vars(SubmitLoad(j) \/ SubmitSend(j))
    /\ \A w \in 1..MaxWorkers :
         WF_vars(w <= workerCount /\ (WorkerDone(w) \/ WorkerReceive(w) \/ WorkerFinish(w)))
    /\ WF_vars(StopCloseDone \/ StopReturn)

SpecPoolFair == PoolInit /\ [][PoolNext]_vars /\ PoolFairness

-----------------------------------------------------------------------------
(* Rate limiter (package ratelimit, found in src/pkg/auth/oidc_test.go).  Time
   is a tick counter; a bucket is [exists, count, resetAt], exists FALSE for a
   key with no entry in the map. *)

Keys == {"key1", "key2"}

Callers == 1..MaxCallers

noBucket == [exists |-> FALSE, count |-> 0, resetAt |-> 0]

\* Allow without the check of the count against the rate
allowUncounted(b, t, r, w) ==
    IF ~b.exists \/ t > b.resetAt
    THEN [bucket |-> [exists |-> TRUE, count |-> 1, resetAt |-> t + w], ok |-> TRUE]
    ELSE [bucket |-> [b EXCEPT !.count = @ + 1], ok |-> TRUE]

\* the body of Allow for the bucket b of the key, at time t, with rate r and
\* window w: the bucket it leaves and the value it returns
allow(b, t, r, w) ==
    IF ~b.exists \/ t > b.resetAt
    THEN [bucket |-> [exists |-> TRUE, count |-> 1, resetAt |-> t + w], ok |-> TRUE]
    ELSE IF b.count >= r
    THEN [bucket |-> b, ok |-> FALSE]
    ELSE [bucket |-> [b EXCEPT !.count = @ + 1], ok |-> TRUE]

\* the window of key k that was opened is still running at time t
sameWindow(k, t) ==
    windowStart[k] >= 0 /\ t <= windowStart[k] + window

\* time passes
Tick ==
    /\ window > 0
    /\ wallClock < MaxTime
    /\ wallClock' = wallClock + 1
    /\ UNCHANGED <<rate, window, mu, limits, callerKey, windowStart, granted, lastCall, retryVars, hookVars, chunkVars>>
    /\ UNCHANGED <<lineVars, genVars, dedupVars, segVars, fmtVars, postVars, collVars, jobVars, poolVars, retryVars, hookVars, chunkVars>>

\* Allow(key), first step: l.mu.Lock()
AllowLock(c, forKey) ==
    /\ window > 0
    /\ callerKey[c] = ""
    /\ mu = 0
    /\ mu' = c
    /\ callerKey' = [callerKey EXCEPT ![c] = forKey]
    /\ UNCHANGED <<rate, window, wallClock, limits, windowStart, granted, lastCall, retryVars, hookVars, chunkVars>>
    /\ UNCHANGED <<lineVars, genVars, dedupVars, segVars, fmtVars, postVars, collVars, jobVars, poolVars, retryVars, hookVars, chunkVars>>

\* Allow(key), under the mutex: the body, the deferred Unlock and the return
AllowBody(c) ==
    /\ mu = c
    /\ \E forKey \in {callerKey[c]}, out \in {allow(limits[callerKey[c]], wallClock, rate, window)} :
         /\ limits' = [limits EXCEPT ![forKey] = out.bucket]
         /\ IF sameWindow(forKey, wallClock)
            THEN /\ granted' = [granted EXCEPT ![forKey] = @ + (IF out.ok THEN 1 ELSE 0)]
                 /\ UNCHANGED windowStart
            ELSE /\ granted' = [granted EXCEPT ![forKey] = IF out.ok THEN 1 ELSE 0]
                 /\ windowStart' = [windowStart EXCEPT ![forKey] = wallClock]
         /\ lastCall' = [key |-> forKey, ok |-> out.ok, flip |-> ~lastCall.flip]
    /\ mu' = 0
    /\ callerKey' = [callerKey EXCEPT ![c] = ""]
    /\ UNCHANGED <<rate, window, wallClock, retryVars, hookVars, chunkVars>>
    /\ UNCHANGED <<lineVars, genVars, dedupVars, segVars, fmtVars, postVars, collVars, jobVars, poolVars, retryVars, hookVars, chunkVars>>

\* cleanup, on a tick of the ticker: under the mutex, every bucket whose window
\* has passed is deleted
Cleanup ==
    /\ window > 0
    /\ mu = 0
    /\ limits' = [k \in Keys |-> IF limits[k].exists /\ wallClock > limits[k].resetAt
                                 THEN noBucket ELSE limits[k]]
    /\ UNCHANGED <<rate, window, wallClock, mu, callerKey, windowStart, granted, lastCall, retryVars, hookVars, chunkVars>>
    /\ UNCHANGED <<lineVars, genVars, dedupVars, segVars, fmtVars, postVars, collVars, jobVars, poolVars, retryVars, hookVars, chunkVars>>

\* the state NewLimiter(rate, window) returns; the configuration reads a rate
\* of 0 as "rate limiting disabled", so a limiter has a rate of at least 1, and
\* the ticker it starts needs a window greater than 0
LimInit ==
    /\ rate \in 1..MaxRate
    /\ window \in 1..MaxWindow
    /\ wallClock = 0
    /\ mu = 0
    /\ limits = [k \in Keys |-> noBucket]
    /\ callerKey = [c \in Callers |-> ""]
    /\ windowStart = [k \in Keys |-> -1]
    /\ granted = [k \in Keys |-> 0]
    /\ lastCall = [key |-> "", ok |-> FALSE, flip |-> FALSE]
    /\ GenIdle /\ LineIdle /\ DedupIdle /\ SegIdle /\ FmtIdle /\ PostIdle /\ CollIdle /\ JobIdle /\ PoolIdle /\ RetryIdle /\ HookIdle /\ ChunkIdle

SpecLimiter ==
    LimInit /\ [][Tick \/ Cleanup \/ \E c \in Callers : AllowBody(c) \/ \E forKey \in Keys : AllowLock(c, forKey)]_vars

-----------------------------------------------------------------------------
(* retry (src/pkg/argocd/client.go).  An error value is [kind, cause]; the
   backoff delay 5*(i+1) seconds is counted in units of 5 seconds. *)

\* the attempts every caller of retry passes
RetryAttempts == 3

\* the methods that fetch through retry
RetrySites == {"ListApplications", "GetManifests", "GetMultiSourceManifests"}

\* what one invocation of fn can return: nil or one of two errors
FnResults == {"nil", "unavailable", "deadline exceeded"}

noError == [kind |-> "none", cause |-> ""]

\* a loop that waits after every failed invocation
alwaysWait(i, attempts) == "wait"

\* after a failed invocation number i (0-based): a backoff wait when another
\* attempt is left, else the loop ends and the last error is wrapped
afterFailure(i, attempts) ==
    IF i < attempts - 1 THEN "wait" ELSE "failed"

\* err = fn() and what follows it in the loop body
CallFn ==
    /\ retryPc = "call"
    /\ \E res \in FnResults :
         /\ fnResults' = Append(fnResults, res)
         /\ IF res = "nil"
            THEN /\ retryErr' = [kind |-> "nil", cause |-> ""]
                 /\ retryPc' = "done"
                 /\ UNCHANGED waitLeft
            ELSE IF afterFailure(retryI, RetryAttempts) = "wait"
            THEN /\ waitLeft' = retryI + 1
                 /\ retryPc' = "wait"
                 /\ UNCHANGED retryErr
            ELSE /\ retryErr' = [kind |-> "failed after attempts", cause |-> res]
                 /\ retryPc' = "done"
                 /\ UNCHANGED waitLeft
    /\ UNCHANGED <<retrySite, retryI, cancelled, cancelledInWait, hookVars, chunkVars>>
    /\ UNCHANGED <<lineVars, genVars, dedupVars, segVars, fmtVars, postVars, collVars, jobVars, poolVars, limVars, hookVars, chunkVars>>

\* the select, `case <-time.After(delay)`: time passes while ctx is not
\* cancelled, and when the delay is over the loop goes on with i+1
WaitTick ==
    /\ retryPc = "wait"
    /\ ~cancelled
    /\ waitLeft' = waitLeft - 1
    /\ IF waitLeft = 1
       THEN retryI' = retryI + 1 /\ retryPc' = "call"
       ELSE UNCHANGED <<retryI, retryPc>>
    /\ UNCHANGED <<retrySite, cancelled, retryErr, fnResults, cancelledInWait, hookVars, chunkVars>>
    /\ UNCHANGED <<lineVars, genVars, dedupVars, segVars, fmtVars, postVars, collVars, jobVars, poolVars, limVars, hookVars, chunkVars>>

\* the select, `case <-ctx.Done()`: return ctx.Err()
ReturnCtxErr ==
    /\ retryPc = "wait"
    /\ cancelled
    /\ retryErr' = [kind |-> "context canceled", cause |-> ""]
    /\ retryPc' = "done"
    /\ UNCHANGED <<retrySite, retryI, waitLeft, cancelled, fnResults, cancelledInWait, hookVars, chunkVars>>
    /\ UNCHANGED <<lineVars, genVars, dedupVars, segVars, fmtVars, postVars, collVars, jobVars, poolVars, limVars, hookVars, chunkVars>>

\* the owner of ctx cancels it while retry runs
CancelCtx ==
    /\ retryPc \in {"call", "wait"}
    /\ ~cancelled
    /\ cancelled' = TRUE
    /\ cancelledInWait' = (retryPc = "wait")
    /\ UNCHANGED <<retrySite, retryI, retryPc, waitLeft, retryErr, fnResults, hookVars, chunkVars>>
    /\ UNCHANGED <<lineVars, genVars, dedupVars, segVars, fmtVars, postVars, collVars, jobVars, poolVars, limVars, hookVars, chunkVars>>

\* retry(ctx, 3, fn) has been called by one of the client methods
RetryInit ==
    /\ retrySite \in RetrySites
    /\ retryI = 0
    /\ retryPc = "call"
    /\ waitLeft = 0
    /\ cancelled \in BOOLEAN
    /\ retryErr = noError
    /\ fnResults = <<>>
    /\ cancelledInWait = FALSE
    /\ GenIdle /\ LineIdle /\ DedupIdle /\ SegIdle /\ FmtIdle /\ PostIdle /\ CollIdle /\ JobIdle /\ PoolIdle /\ LimIdle /\ HookIdle /\ ChunkIdle

SpecRetry == RetryInit /\ [][CallFn \/ WaitTick \/ ReturnCtxErr \/ CancelCtx]_vars

-----------------------------------------------------------------------------
(* handleWebhook (src/cmd/server/main.go) with Config.IsRepoAllowed
   (src/pkg/worker/types.go) and the token checks (src/unnamed/part_006).  A
   repository name and a pattern are sequences of one-character strings. *)

\* strings.ToLower on the letters used
ToLower(s) ==
    [i \in 1..Len(s) |-> CASE s[i] = "A" -> "a" [] s[i] = "B" -> "b" [] OTHER -> s[i]]

\* strings.HasSuffix
HasSuffix(s, suffix) ==
    Len(s) >= Len(suffix) /\ SubText(s, Len(s) - Len(suffix) + 1, Len(s)) = suffix

\* matchPattern: exact match, "owner/*" or "*/*", both sides lowered and trimmed
matchPattern(pattern, repo) ==
    LET pt == ToLower(TrimSpace(pattern))
        rp == ToLower(TrimSpace(repo))
    IN  \/ pt = <<"*", "/", "*">>
        \/ pt = rp
        \/ /\ HasSuffix(pt, <<"/", "*">>)
           /\ HasPrefix(rp, SubText(pt, 1, Len(pt) - 2) \o <<"/">>)

\* Config.IsRepoAllowed
IsRepoAllowed(patterns, repo) ==
    \E n \in 1..Len(patterns) : matchPattern(patterns[n], ToLower(TrimSpace(repo)))

\* ValidateToken succeeds: signature and issuer are good and the token carries
\* a non-empty repository claim, which it returns
tokenValidates(token) ==
    token.signed /\ token.repository /= <<>>

\* validatePayload returns nil
validatePayload(p) ==
    /\ p.GitHubToken /= "" /\ p.ArgocdToken /= "" /\ p.ArgocdServer /= ""
    /\ p.Repository /= <<>>
    /\ p.PRNumber > 0
    /\ p.BaseRef /= "" /\ p.HeadRef /= ""
    /\ p.ChangedFiles > 0

\* the status handleWebhook answers with and the queue it leaves, for the
\* allowlist `patterns`, the queue of capacity `size` and the request req
handleWebhook(patterns, queue, size, req) ==
    IF req.method /= "POST" THEN [status |-> 405, queue |-> queue]
    ELSE IF ~req.bearer THEN [status |-> 401, queue |-> queue]
    ELSE IF ~tokenValidates(req.token) THEN [status |-> 401, queue |-> queue]
    ELSE IF ~IsRepoAllowed(patterns, req.token.repository) THEN [status |-> 403, queue |-> queue]
    ELSE IF ~req.json THEN [status |-> 400, queue |-> queue]
    ELSE IF ~validatePayload(req.payload) THEN [status |-> 400, queue |-> queue]
    ELSE IF Len(queue) < size
    THEN [status |-> 202,
          queue  |-> Append(queue, [Repository |-> req.payload.Repository,
                                    PRNumber   |-> req.payload.PRNumber])]
    ELSE [status |-> 503, queue |-> queue]

\* repository names: two of owner a, one of owner b, one of owner ab, one that
\* differs from a/b in case only
RepoNames ==
    { <<"a", "/", "b">>, <<"a", "/", "c">>, <<"b", "/", "b">>,
      <<"a", "b", "/", "c">>, <<"A", "/", "b">> }

\* allowlists as parseAllowlist returns them: non-empty lists of patterns
Allowlists ==
    { << <<"a", "/", "b">> >>,
      << <<"a", "/", "*">> >>,
      << <<"a", "/", "b">>, <<"b", "/", "*">> >>,
      << <<"*", "/", "*">> >> }

goodPayload ==
    [GitHubToken |-> "t", ArgocdToken |-> "t", ArgocdServer |-> "s", Repository |-> <<"a", "/", "b">>,
     PRNumber |-> 1, BaseRef |-> "r", HeadRef |-> "r", ChangedFiles |-> 1]

\* payloads: the good one for every repository name, and the good one with one
\* required field missing
Payloads ==
    {[goodPayload EXCEPT !.Repository = rn] : rn \in RepoNames \cup {<<>>}}
    \cup {[goodPayload EXCEPT !.GitHubToken = ""], [goodPayload EXCEPT !.ArgocdToken = ""],
          [goodPayload EXCEPT !.ArgocdServer = ""], [goodPayload EXCEPT !.PRNumber = 0],
          [goodPayload EXCEPT !.BaseRef = ""], [goodPayload EXCEPT !.HeadRef = ""],
          [goodPayload EXCEPT !.ChangedFiles = 0]}

\* a POST with a signed bearer token for tokenRepo and a JSON body with payload p
requestOf(tokenRepo, p) ==
    [method |-> "POST", bearer |-> TRUE, token |-> [signed |-> TRUE, repository |-> tokenRepo],
     json |-> TRUE, payload |-> p]

goodRequest == requestOf(<<"a", "/", "b">>, goodPayload)

\* requests: every pair of a token repository and a payload, and the good
\* request with one thing wrong: the method, the Authorization header, the
\* signature of the token, its repository claim, the JSON of the body
Requests ==
    {requestOf(tokenRepo, p) : tokenRepo \in RepoNames, p \in Payloads}
    \cup {[goodRequest EXCEPT !.method = "GET"], [goodRequest EXCEPT !.bearer = FALSE],
          [goodRequest EXCEPT !.token.signed = FALSE],
          [goodRequest EXCEPT !.token.repository = <<>>], [goodRequest EXCEPT !.json = FALSE]}

\* one request is handled
HandleWebhook ==
    /\ allowlist /= <<>>
    /\ \E req \in Requests :
         \E out \in {handleWebhook(allowlist, hookQueue, MaxQueueSize, req)} :
             /\ hookQueue' = out.queue
             /\ hookStatus' = out.status
             /\ hookRequest' = req
    /\ UNCHANGED allowlist
    /\ UNCHANGED <<lineVars, genVars, dedupVars, segVars, fmtVars, postVars, collVars, jobVars, poolVars, limVars, retryVars, chunkVars>>

\* a worker takes the oldest job off the queue
TakeJob ==
    /\ hookQueue /= <<>>
    /\ hookQueue' = Tail(hookQueue)
    /\ UNCHANGED <<allowlist, hookRequest, hookStatus, chunkVars>>
    /\ UNCHANGED <<lineVars, genVars, dedupVars, segVars, fmtVars, postVars, collVars, jobVars, poolVars, limVars, retryVars, chunkVars>>

HookInit ==
    /\ allowlist \in Allowlists
    /\ hookQueue = <<>>
    /\ hookRequest = <<>>
    /\ hookStatus = 0
    /\ GenIdle /\ LineIdle /\ DedupIdle /\ SegIdle /\ FmtIdle /\ PostIdle /\ CollIdle /\ JobIdle /\ PoolIdle /\ LimIdle /\ RetryIdle /\ ChunkIdle

SpecHook == HookInit /\ [][HandleWebhook \/ TakeJob]_vars

-----------------------------------------------------------------------------
(* processJob run on bounded inputs *)

JobInit ==
    /\ affectedApps \in {SubText(AppNames, 1, n) : n \in 1..MaxApps}
    /\ jobCursor = 1
    /\ diffResults = <<>>
    /\ jobReport = <<>>
    /\ jobPc = "loop"
    /\ GenIdle /\ LineIdle /\ DedupIdle /\ SegIdle /\ FmtIdle /\ PostIdle /\ CollIdle /\ PoolIdle /\ LimIdle /\ RetryIdle /\ HookIdle /\ ChunkIdle

SpecJob == JobInit /\ [][FetchBaseFails \/ FetchHeadFails \/ DiffApp \/ PostReport]_vars

-----------------------------------------------------------------------------
(* Claims about the line differ *)

\* the texts of the diff lines whose mark is in `marks`, in order
RECURSIVE markedTexts(_, _)
markedTexts(result, marks) ==
    IF result = <<>> THEN <<>>
    ELSE (IF Head(result).change \in marks THEN <<Head(result).text>> ELSE <<>>)
         \o markedTexts(Tail(result), marks)

\* C1: round trip. Once the differ has run on sequences that differ, the
\* diff lines marked ' ' or '+' are, in order, exactly `after`, and the
\* diff lines marked ' ' or '-' are, in order, exactly `before`.
C1_RoundTrip ==
    (diffPc = "done" /\ oldLines # newLines) =>
        /\ markedTexts(diffLines, {" ", "+"}) = newLines
        /\ markedTexts(diffLines, {" ", "-"}) = oldLines

\* a run in which anchors exist but one is discarded as a reordering, with
\* lines whose hashes collide present on both sides
C1_Witness ==
    /\ diffPc = "done"
    /\ oldLines = <<<<"a">>, <<"b">>, <<"q">>>>
    /\ newLines = <<<<"q">>, <<"b">>, <<"a">>>>
    /\ Len(diffLines) = 5

\* C12: idempotence. Diffing a line sequence against itself yields empty
\* output: no file header and no hunk
C12_SelfDiffEmpty ==
    (diffPc = "done" /\ oldLines = newLines) => diffText = <<>>

\* a sequence of three lines, one of them repeated, diffed against itself
C12_Witness ==
    /\ diffPc = "done"
    /\ oldLines = <<<<"a">>, <<"q">>, <<"a">>>>
    /\ newLines = oldLines
    /\ diffText = <<>>

\* the length of a longest common subsequence of x[i..] and y[j..]
RECURSIVE lcsFrom(_, _, _, _)
lcsFrom(x, y, i, j) ==
    IF i > Len(x) \/ j > Len(y) THEN 0
    ELSE IF x[i] = y[j] THEN 1 + lcsFrom(x, y, i + 1, j + 1)
    ELSE IF lcsFrom(x, y, i + 1, j) >= lcsFrom(x, y, i, j + 1)
         THEN lcsFrom(x, y, i + 1, j)
         ELSE lcsFrom(x, y, i, j + 1)

equalCount(result) == Cardinality({i \in 1..Len(result) : result[i].change = " "})

noRepeats(x) == \A i, j \in 1..Len(x) : x[i] = x[j] => i = j

pairsEqualText(anchors, old, new) ==
    \A n \in 1..Len(anchors) :
        /\ anchors[n].oldIdx \in 0..(Len(old) - 1)
        /\ anchors[n].newIdx \in 0..(Len(new) - 1)
        /\ old[anchors[n].oldIdx + 1] = new[anchors[n].newIdx + 1]

\* no old line and no new line belongs to two anchors
oneAnchorPerLine(anchors) ==
    \A m, n \in 1..Len(anchors) :
        m # n => anchors[m].oldIdx # anchors[n].oldIdx /\ anchors[m].newIdx # anchors[n].newIdx

increasingBothWays(anchors) ==
    \A m, n \in 1..Len(anchors) :
        m < n => anchors[m].oldIdx < anchors[n].oldIdx /\ anchors[m].newIdx < anchors[n].newIdx

\* the anchors the differ kept, read off the equal lines of its result
keptAnchors(result) ==
    [n \in 1..Len(SelectSeq(result, LAMBDA d : d.change = " ")) |->
        [oldIdx |-> SelectSeq(result, LAMBDA d : d.change = " ")[n].oldLine - 1,
         newIdx |-> SelectSeq(result, LAMBDA d : d.change = " ")[n].newLine - 1]]

\* C25: the anchors form a valid order-preserving matching: every anchor, as
\* found and as kept, pairs a before line and an after line of exactly equal
\* text, no line belongs to two anchors, and the kept anchors are strictly
\* increasing in the before index and in the after index.
C25_ValidMatching ==
    (diffPc = "done" /\ oldLines # newLines) =>
        /\ pairsEqualText(anchorsOf(oldLines, newLines), oldLines, newLines)
        /\ oneAnchorPerLine(anchorsOf(oldLines, newLines))
        /\ pairsEqualText(keptAnchors(diffLines), oldLines, newLines)
        /\ oneAnchorPerLine(keptAnchors(diffLines))
        /\ increasingBothWays(keptAnchors(diffLines))
        /\ keptAnchors(diffLines) = lisOf(anchorsOf(oldLines, newLines))

\* a repeated line and two lines of different text and equal hash, with two
\* anchors kept and one dropped
C25_Witness ==
    /\ diffPc = "done"
    /\ \E i \in 1..Len(oldLines), j \in 1..Len(newLines) :
         oldLines[i] # newLines[j] /\ hashLine(oldLines[i]) = hashLine(newLines[j])
    /\ \E i, j \in 1..Len(newLines) : i # j /\ newLines[i] = newLines[j]
    /\ Len(anchorsOf(oldLines, newLines)) = 3
    /\ Len(keptAnchors(diffLines)) = 2

\* the positions S of the candidates, taken in order, have increasing new indexes
increasingAt(cand, S) ==
    \A m, n \in S : m < n => cand[m].newIdx < cand[n].newIdx

\* kept is the subsequence of cand at some set of positions
isSubsequenceOf(kept, cand) ==
    \E S \in SUBSET (1..Len(cand)) :
        /\ Cardinality(S) = Len(kept)
        /\ \A n \in 1..Len(kept) :
             \E m \in S : Cardinality({x \in S : x <= m}) = n /\ cand[m] = kept[n]

\* C26: the kept anchors are a subsequence of the candidates sorted by before
\* index, with strictly increasing after indexes, and no subsequence with
\* strictly increasing after indexes is longer.
C26_LongestIncreasing ==
    (diffPc = "done" /\ oldLines # newLines) =>
        /\ \A n \in 1..(Len(anchorsOf(oldLines, newLines)) - 1) :
             anchorsOf(oldLines, newLines)[n].oldIdx <= anchorsOf(oldLines, newLines)[n + 1].oldIdx
        /\ isSubsequenceOf(keptAnchors(diffLines), anchorsOf(oldLines, newLines))
        /\ increasingAt(keptAnchors(diffLines), 1..Len(keptAnchors(diffLines)))
        /\ \A S \in SUBSET (1..Len(anchorsOf(oldLines, newLines))) :
             increasingAt(anchorsOf(oldLines, newLines), S) =>
                 Cardinality(S) <= Len(keptAnchors(diffLines))

\* three lines moved round: three candidates out of order, two of them kept
C26_Witness ==
    /\ diffPc = "done"
    /\ Len(anchorsOf(oldLines, newLines)) = 3
    /\ anchorsOf(oldLines, newLines)[1].newIdx > anchorsOf(oldLines, newLines)[2].newIdx
    /\ anchorsOf(oldLines, newLines)[2].newIdx < anchorsOf(oldLines, newLines)[3].newIdx
    /\ Len(keptAnchors(diffLines)) = 2
    /\ keptAnchors(diffLines)[1] = anchorsOf(oldLines, newLines)[2]

\* in a sequence of records with a change field, every '-' that comes after
\* a '+' has an equal line between the two
deletionsFirst(lines) ==
    \A i, j \in 1..Len(lines) :
        (i < j /\ lines[i].change = "+" /\ lines[j].change = "-") =>
            \E m \in (i + 1)..(j - 1) : lines[m].change = " "

\* C27: between two consecutive equal lines, and before the first and after
\* the last, the deletions are emitted before the insertions: a '-' line
\* never follows a '+' line without an equal line between them, in the line
\* sequence and in the rendered hunks.
C27_DeletionsBeforeInsertions ==
    diffPc = "done" =>
        /\ deletionsFirst(diffLines)
        /\ deletionsFirst(SelectSeq(diffText, LAMBDA r : r.kind = "line"))

\* a gap holding a deletion and an insertion, then an equal line, then a
\* tail holding both again
C27_Witness ==
    /\ diffPc = "done"
    /\ Len(diffLines) = 5
    /\ diffLines[1].change = "-" /\ diffLines[2].change = "+"
    /\ diffLines[3].change = " "
    /\ diffLines[4].change = "-" /\ diffLines[5].change = "+"
    /\ Len(SelectSeq(diffText, LAMBDA r : r.kind = "line")) = 5

-----------------------------------------------------------------------------
(* Claims about GenerateDiff *)

\* the indexes of the blocks of Diffs that carry key k
blocksFor(diffs, k) == {i \in 1..Len(diffs) : diffs[i].key = k}

bothSides(maps) == DOMAIN maps.base \cap DOMAIN maps.head

\* C2: a key present in both collections whose raw text is byte-identical
\* on both sides has no block in Diffs.
C2_IdenticalOmitted ==
    genPc = "done" =>
        \A maps \in {resourceMaps(baseManifests, headManifests)} :
        \A k \in bothSides(maps) :
            maps.base[k].raw = maps.head[k].raw
                => blocksFor(genResult.result.Diffs, k) = {}

\* an unchanged resource beside a resource that did change
C2_Witness ==
    /\ genPc = "done"
    /\ genResult.result.HasChanges
    /\ \E maps \in {resourceMaps(baseManifests, headManifests)} :
       \E k \in bothSides(maps) : maps.base[k].raw = maps.head[k].raw

hasChangeLine(diff) ==
    \E i \in 1..Len(diff) : diff[i].kind = "line" /\ diff[i].change \in {"+", "-"}

\* C3: a key present in both collections whose raw text differs has exactly
\* one block, a modified one, and the unified diff inside it holds at least
\* one '+' or '-' line.
C3_ModifiedRendered ==
    genPc = "done" =>
        \A maps \in {resourceMaps(baseManifests, headManifests)} :
        \A k \in bothSides(maps) :
            maps.base[k].raw # maps.head[k].raw
                => /\ Cardinality(blocksFor(genResult.result.Diffs, k)) = 1
                   /\ \A i \in blocksFor(genResult.result.Diffs, k) :
                        /\ genResult.result.Diffs[i].kind = "modified"
                        /\ hasChangeLine(genResult.result.Diffs[i].diff)

\* a resource whose two versions have as many lines and differ in one
C3_Witness ==
    /\ genPc = "done"
    /\ baseManifests = <<DocA2>>
    /\ headManifests = <<DocA3>>
    /\ Len(genResult.result.Diffs) = 1

\* the kind of block GenerateDiff owes key k, "none" for an unchanged resource
owedKind(maps, k) ==
    IF k \notin DOMAIN maps.head THEN "deleted"
    ELSE IF k \notin DOMAIN maps.base THEN "added"
    ELSE IF maps.base[k].raw # maps.head[k].raw THEN "modified"
    ELSE "none"

allKeys(maps) == DOMAIN maps.base \cup DOMAIN maps.head

\* C4: every key is classified exactly once: one deleted block for a key only
\* in base, one added block for a key only in head, one modified block for a
\* key in both with different text, nothing for a key in both with identical
\* text; Diffs has as many blocks as there are such keys, and HasChanges is
\* true exactly when Diffs is not empty.
C4_ClassifiedOnce ==
    genPc = "done" =>
        \A maps \in {resourceMaps(baseManifests, headManifests)} :
            /\ \A k \in allKeys(maps) :
                 IF owedKind(maps, k) = "none"
                 THEN blocksFor(genResult.result.Diffs, k) = {}
                 ELSE /\ Cardinality(blocksFor(genResult.result.Diffs, k)) = 1
                      /\ \A i \in blocksFor(genResult.result.Diffs, k) :
                           genResult.result.Diffs[i].kind = owedKind(maps, k)
            /\ Len(genResult.result.Diffs)
                 = Cardinality({k \in allKeys(maps) : owedKind(maps, k) # "none"})
            /\ genResult.result.HasChanges <=> (Len(genResult.result.Diffs) > 0)

\* one deleted, one modified and one added resource in the same call
C4_Witness ==
    /\ genPc = "done"
    /\ \A kind \in {"deleted", "modified", "added"} :
         \E i \in 1..Len(genResult.result.Diffs) : genResult.result.Diffs[i].kind = kind

\* the keys all of whose documents carry the hook annotation
hookKeys(resources) ==
    {key(resources[i]) : i \in {j \in 1..Len(resources) : resources[j].Hook}}
    \ {key(resources[i]) : i \in {j \in 1..Len(resources) : ~resources[j].Hook}}

identity(r) ==
    [APIVersion |-> r.APIVersion, Kind |-> r.Kind, Name |-> r.Name,
     Namespace |-> r.Namespace, Hook |-> r.Hook]

identities(resources) == [i \in 1..Len(resources) |-> identity(resources[i])]

\* the well-formed sub-documents of a list of manifests, in order: the
\* documents between separator lines that parse and have apiVersion, kind
\* and name
RECURSIVE wellFormedDocs(_)
wellFormedDocs(manifests) ==
    IF Len(manifests) = 0 THEN <<>>
    ELSE parseDocs(Split(TrimSpace(Head(manifests)), DocSeparator), 1)
         \o wellFormedDocs(Tail(manifests))

\* C10: a malformed sub-document is dropped alone and is never fatal:
\* parseManifests returns every well-formed sub-document of its input, in
\* order, and GenerateDiff returns a result and no error.
C10_MalformedSkipped ==
    genPc = "done" =>
        /\ identities(parseManifests(baseManifests)) = identities(wellFormedDocs(baseManifests))
        /\ identities(parseManifests(headManifests)) = identities(wellFormedDocs(headManifests))
        /\ genResult.err = "nil"
        /\ genResult.result.AppInfo = AppName

\* C11: two calls of GenerateDiff with the same base manifests, head manifests
\* and AppInfo return the same Diffs: the same blocks, in the same order, with
\* the same text
C11_SameDiffsTwice ==
    genPc = "again" => genAgain.result.Diffs = genResult.result.Diffs

-----------------------------------------------------------------------------
(* Claims about the result deduplicator *)

eligible(r) == r.ErrorMessage = "" /\ r.HasChanges

diffTextOf(r) == Join(r.Diffs, <<>>)

\* the eligible results up to i with the diff text of results[i]
sameTextUpTo(i) ==
    {j \in 1..i : eligible(results[j]) /\ diffTextOf(results[j]) = diffTextOf(results[i])}

firstOf(S) == CHOOSE j \in S : \A k \in S : j <= k

\* C7: among the results with changes and without error, the first one with a
\* given diff text keeps an empty DuplicateOf and every later one with the
\* same diff text names that first one; nothing else of a result changes
C7_FirstIsCanonical ==
    dedupPc = "done" =>
        /\ Len(deduped) = Len(results)
        /\ \A i \in 1..Len(results) :
             /\ [deduped[i] EXCEPT !.DuplicateOf = ""] = results[i]
             /\ eligible(results[i]) =>
                  deduped[i].DuplicateOf =
                      IF firstOf(sameTextUpTo(i)) = i THEN ""
                      ELSE results[firstOf(sameTextUpTo(i))].AppInfo

\* three identical results: the second and the third name the first
C7_Witness ==
    /\ dedupPc = "done"
    /\ Len(results) = 3
    /\ \A i \in 1..3 : eligible(results[i]) /\ results[i].Diffs = results[1].Diffs
    /\ deduped[1].DuplicateOf = ""
    /\ deduped[2].DuplicateOf = "app1"
    /\ deduped[3].DuplicateOf = "app1"

\* C8: a result with an error message or without changes keeps an empty
\* DuplicateOf and is never named as the canonical result of another
C8_SkippedUntouched ==
    dedupPc = "done" =>
        \A i \in 1..Len(results) :
            ~eligible(results[i]) =>
                /\ deduped[i].DuplicateOf = ""
                /\ \A j \in 1..Len(deduped) : deduped[j].DuplicateOf # results[i].AppInfo

\* a failed result and a result without error hold the same diff blocks
C8_Witness ==
    /\ dedupPc = "done"
    /\ Len(results) = 3
    /\ results[1].ErrorMessage # "" /\ results[1].HasChanges
    /\ eligible(results[2]) /\ results[2].Diffs = results[1].Diffs
    /\ results[3].ErrorMessage # "" /\ results[3].Diffs = results[1].Diffs
    /\ \A i \in 1..3 : deduped[i].DuplicateOf = ""

-----------------------------------------------------------------------------
(* Claims about the report segmenter *)

\* C5: no part returned by splitComment is longer than 60000 - 500 characters
C5_PartsWithinLimit ==
    segPc = "done" => \A p \in 1..Len(parts) : textLen(parts[p]) <= maxCommentSize - 500

ClosingTag == <<[sym |-> "D", n |-> 1]>>

\* the non-blank sections of a text in order: the text up to and including
\* each closing tag, and the text after the last tag unless it is blank
RECURSIVE closedFrom(_, _)
closedFrom(sections, i) ==
    IF i > Len(sections) THEN <<>>
    ELSE IF i < Len(sections) THEN <<sections[i] \o ClosingTag>> \o closedFrom(sections, i + 1)
    ELSE IF isBlank(sections[i]) THEN <<>>
    ELSE <<sections[i]>>

closedSections(t) == closedFrom(sectionsOf(t), 1)

RECURSIVE sectionsAcross(_)
sectionsAcross(ps) ==
    IF Len(ps) = 0 THEN <<>> ELSE closedSections(ps[1]) \o sectionsAcross(Tail(ps))

-----------------------------------------------------------------------------
(* Claims about FormatAppDiff *)

\* the form of a rendering, read off its heading
formOf(text) ==
    CASE Len(text) = 0 -> "none"
      [] text[1] = "### :warning: '" -> "error"
      [] text[1] = "### :check: No changes for '" -> "no changes"
      [] text[1] = "### :memo: '" -> "full"
      [] OTHER -> IF \E i \in 1..Len(text) : text[i] = "Same diff as '"
                  THEN "duplicate" ELSE "none"

\* the form the claim's priority order selects
expectedForm(result) ==
    IF result.ErrorMessage # "" THEN "error"
    ELSE IF result.DuplicateOf # "" THEN "duplicate"
    ELSE IF ~result.HasChanges THEN "no changes"
    ELSE "full"

containsBlockOf(text, result) ==
    \E i \in 1..Len(result.Diffs) : IndexFrom(text, result.Diffs[i], 1) # 0

\* C14: FormatAppDiff renders the form chosen in the order error message,
\* DuplicateOf, no changes, full block, and the rendering of a result with an
\* error message or with DuplicateOf set contains none of its diff blocks
C14_FourForms ==
    fmtPc = "done" =>
        /\ formOf(fmtText) = expectedForm(fmtResult)
        /\ (fmtResult.ErrorMessage # "" \/ fmtResult.DuplicateOf # "")
              => ~containsBlockOf(fmtText, fmtResult)

-----------------------------------------------------------------------------
(* Claims about PostComment *)

\* the comments created by the running call: those after the comments that
\* were on the pull request and survived DeleteOldComments
created ==
    IF postPc \in {"create", "done"} /\ postParts # <<>>
    THEN SubText(prComments, Len(prComments) - (postCursor - 1) + 1, Len(prComments))
    ELSE <<>>

partHeader(i, m) ==
    <<piece("## ArgoCD Diff Preview (part "), numeral(i), piece(" of "), numeral(m),
      piece(")\n\n")>>

\* C15: every comment PostComment creates contains the marker of its workflow;
\* when there are M > 1 parts the i-th comment created starts with the header
\* "part i of M" and ends with the i-th part, and when PostComment returns nil
\* it has created M comments
C15_MarkerAndPartHeaders ==
    /\ Len(created) <= Len(postParts)
    /\ \A i \in 1..Len(created) :
         /\ IndexFrom(created[i], workflowIdentifier(WorkflowName), 1) # 0
         /\ Len(postParts) > 1 =>
              /\ HasPrefix(created[i], partHeader(i, Len(postParts)))
              /\ SubText(created[i], Len(created[i]) - Len(postParts[i]) + 1, Len(created[i]))
                   = postParts[i]
    /\ (postPc = "done" /\ postErr = "nil") => Len(created) = Len(postParts)

\* a report of three parts posted in full under a comment of another workflow
C15_Witness ==
    /\ postPc = "done"
    /\ postErr = "nil"
    /\ Len(postParts) = 3
    /\ Len(prComments) = 4
    /\ HasPrefix(prComments[4], partHeader(3, 3))

\* the comments that were on the pull request before the call and are still there
survivors == SubText(prComments, 1, Len(prComments) - Len(created))

\* one of them carries the marker of this workflow
stillMarked ==
    \E k \in 1..Len(survivors) : isWorkflowComment(survivors[k], WorkflowName)

\* a failure ends the call: after a failed listing or deletion no comment is
\* created, after a failed creation of part i no later part is created, the
\* error is what the call returns, and nothing is done after the return
failureStops ==
    /\ [][Len(prComments') > Len(prComments) => (postPc = "create" /\ postErr = "nil")]_vars
    /\ [](postErr \in {"delete old comments: list comments", "delete old comments: delete comment"}
            => (postPc = "done" /\ created = <<>> /\ postParts = <<>>))
    /\ [](postErr = "create comment part"
            => (postPc = "done" /\ Len(created) = postCursor - 1 /\ Len(created) < Len(postParts)))
    /\ [][postPc # "done"]_vars

\* C30: replace-then-post. Once a comment has been created no comment that was
\* on the pull request before carries this workflow's marker; when listing or
\* deleting fails no comment is created; when creating part i fails no later
\* part is created and the error is returned.
C30_ReplaceThenPost ==
    /\ [](Len(created) >= 1 => ~stillMarked)
    /\ failureStops

\* the same for the calls that needed one listing only, which is every call
\* on a pull request of at most PerPage comments
C30_ReplaceThenPostOnePage ==
    /\ [](((postPc = "create" \/ Len(created) >= 1) /\ optsPage = 0) => ~stillMarked)
    /\ failureStops

\* PostComment has returned nil and a comment of this workflow that was there
\* before the call is still on the pull request
C30_OldCommentLeft ==
    /\ postPc = "done"
    /\ postErr = "nil"
    /\ Len(created) = Len(postParts)
    /\ stillMarked

-----------------------------------------------------------------------------
(* Claims about the collapse transform *)

\* part `after` is part `before` with every "<details open>" rewritten to
\* "<details>" and nothing else changed
collapsedOf(before, after) ==
    /\ Len(after) = Len(before)
    /\ \A k \in 1..Len(before) :
         /\ before[k] = "O" => after[k] = "T"
         /\ before[k] # "O" => after[k] = before[k]

\* C16: with a threshold greater than 0 and more parts than the threshold,
\* every "<details open>" of every part is rewritten to "<details>" and nothing
\* else changes; otherwise every part is left as it is
C16_CollapseAboveThreshold ==
    collPc = "done" =>
        /\ Len(collOut) = Len(collParts)
        /\ \A i \in 1..Len(collParts) :
             IF collThreshold > 0 /\ Len(collParts) > collThreshold
             THEN collapsedOf(collParts[i], collOut[i])
             ELSE collOut[i] = collParts[i]

\* four parts over a threshold of three, open sections in the first and last
C16_Witness ==
    /\ collPc = "done"
    /\ collThreshold = 3
    /\ Len(collParts) = 4
    /\ collParts[1] = <<"O", "x", "D">>
    /\ collParts[4] = <<"O", "x", "D", "O", "T", "D">>
    /\ collOut[4] = <<"T", "x", "D", "T", "T", "D">>

-----------------------------------------------------------------------------
(* Claims about processJob *)

\* C17: the loop appends exactly one DiffResult per affected application, in
\* application order; a result with an error message has no diff blocks and
\* no changes; whatever failed, every application is processed and the report
\* over all of them is built and handed to PostComment
C17_OneResultPerApp ==
    /\ jobPc \in {"loop", "done"} =>
         /\ Len(diffResults) = jobCursor - 1
         /\ \A i \in 1..Len(diffResults) :
              /\ diffResults[i].AppInfo = affectedApps[i]
              /\ diffResults[i].ErrorMessage # ""
                   => (diffResults[i].Diffs = <<>> /\ ~diffResults[i].HasChanges)
    /\ jobPc = "done" =>
         /\ Len(diffResults) = Len(affectedApps)
         /\ jobReport # <<>>
         /\ jobReport.Results = diffResults
         /\ jobReport.TotalApps = Len(affectedApps)

\* the first application fails at the base fetch, the second at the head
\* fetch, the third is diffed with changes, and the report is posted
C17_Witness ==
    /\ jobPc = "done"
    /\ Len(affectedApps) = 3
    /\ diffResults[1].ErrorMessage = "Failed to get base manifests"
    /\ diffResults[2].ErrorMessage = "Failed to get head manifests"
    /\ diffResults[3].ErrorMessage = "" /\ diffResults[3].HasChanges
    /\ jobReport.AppsWithDiffs = 1

\* C18: Pool.Submit never blocks (a call that has begun can always take its next
\* step); a call that reads draining as set, or that finds QueueSize jobs in the
\* queue, returns false and leaves the queue alone; any other call appends its
\* job and returns true; the queue never holds more than QueueSize jobs.
submitReturns(j, value) ==
    submitPc[j] \in {"idle", "loaded"} /\ submitPc'[j] = value

C18_SubmitContract ==
    \A j \in Jobs :
        /\ submitPc[j] = "idle" /\ draining /\ submitPc'[j] /= "idle"
             => submitReturns(j, "false") /\ jobQueue' = jobQueue
        /\ submitPc[j] = "loaded" /\ submitPc'[j] /= "loaded"
             => IF Len(jobQueue) >= queueSize
                THEN submitReturns(j, "false") /\ jobQueue' = jobQueue
                ELSE submitReturns(j, "true") /\ jobQueue' = Append(jobQueue, j)
        /\ submitReturns(j, "true") => jobQueue' = Append(jobQueue, j)
        /\ submitReturns(j, "false") => jobQueue' = jobQueue

C18_SubmitNeverBlocks ==
    /\ [](Len(jobQueue) <= queueSize)
    /\ [](\A j \in Jobs : submitPc[j] = "idle" => ENABLED SubmitLoad(j))
    /\ [](\A j \in Jobs : submitPc[j] = "loaded" => ENABLED SubmitSend(j))
    /\ [][C18_SubmitContract]_vars

\* a full queue with one call accepted, one refused for the full queue and one
\* refused for the draining flag
C18_Witness ==
    /\ Len(jobQueue) = queueSize
    /\ draining
    /\ \E j1, j2, j3 \in Jobs :
         /\ j1 /= j2 /\ j2 /= j3 /\ j1 /= j3
         /\ submitPc[j1] = "true" /\ submitPc[j2] = "false" /\ submitPc[j3] = "false"
         /\ queueSize = 1 /\ jobQueue = <<j1>> /\ stopPc = "stored"

\* C19: graceful shutdown drains the queue: every job for which Submit returned
\* true is eventually handed to the processor, and no job is handed to it more
\* than once, whether or not Stop is called while the job is queued or running.
C19_DrainsQueue ==
    /\ \A j \in Jobs : (submitPc[j] = "true") ~> (handed[j] = 1)
    /\ [](\A j \in Jobs : handed[j] <= 1)

-----------------------------------------------------------------------------
(* Claims about the rate limiter *)

\* an Allow call for key k returns in this step
allowReturns(k) ==
    lastCall'.flip /= lastCall.flip /\ lastCall'.key = k

\* what the claim says of one step: a call for key k returns true exactly when
\* fewer than `rate` calls returned true in the running window of k, whatever
\* the other keys did, and it leaves the buckets of the other keys alone
rateLimitStep ==
    \A k \in Keys :
        allowReturns(k) =>
            /\ lastCall'.ok <=> (~sameWindow(k, wallClock) \/ granted[k] < rate)
            /\ \A other \in Keys \ {k} :
                   limits'[other] = limits[other] /\ granted'[other] = granted[other]

-----------------------------------------------------------------------------
(* Claims about retry *)

\* C21: retry invokes fn at most 3 times, never after an invocation returned
\* nil and never after ctx was cancelled during a backoff wait, in which case it
\* returns the context's error; it returns nil exactly when an invocation
\* returned nil.
C21_RetryContract ==
    /\ [](Len(fnResults) <= 3)
    /\ [][Len(fnResults') > Len(fnResults)
            => ~cancelledInWait /\ \A n \in 1..Len(fnResults) : fnResults[n] /= "nil"]_vars
    /\ [](retryPc = "done" /\ cancelledInWait => retryErr.kind = "context canceled")
    /\ [](retryPc = "done" =>
            (retryErr.kind = "nil" <=> \E n \in 1..Len(fnResults) : fnResults[n] = "nil"))

\* ctx is cancelled in the second backoff wait, after two failed invocations,
\* and retry has returned
C21_Witness ==
    /\ retryPc = "done"
    /\ cancelledInWait
    /\ retryI = 1
    /\ Len(fnResults) = 2
    /\ retryErr.kind = "context canceled"

-----------------------------------------------------------------------------
(* Claims about handleWebhook *)

\* C22: every job on the job queue has a Repository that matches the
\* allowlist, and a request is answered 202 only when its bearer token was
\* validated, the repository was found in the allowlist and the payload passed
\* validation.
C22_AllowlistEnforced ==
    /\ \A n \in 1..Len(hookQueue) : IsRepoAllowed(allowlist, hookQueue[n].Repository)
    /\ hookStatus = 202 =>
         /\ hookRequest.bearer /\ tokenValidates(hookRequest.token)
         /\ IsRepoAllowed(allowlist, hookRequest.token.repository)
         /\ hookRequest.json /\ validatePayload(hookRequest.payload)

-----------------------------------------------------------------------------
(* Claims about the hunks of the unified diff *)

\* the hunk headers of the output, in order
headersOf(text) == SelectSeq(text, LAMBDA rec : rec.kind = "hunk")

\* the hunks of the diff lines: [startIdx, endIdx], 0-based
hunksOf(result) == findHunks(result, ContextLines, 0, FALSE, 0, <<>>)

\* the 1-based positions of the diff lines of hunk h that carry one of `marks`
markedIn(result, h, marks) ==
    {i \in (h.startIdx + 1)..(h.endIdx + 1) : result[i].change \in marks}

Least(S) == CHOOSE x \in S : \A y \in S : x <= y

\* C23: in every hunk header oldCount is the number of ' ' and '-' lines of the
\* hunk and newCount the number of its ' ' and '+' lines; oldStart is the old
\* line number of its first ' ' or '-' line and newStart the new line number of
\* its first ' ' or '+' line, each 1 when the hunk has no such line.
C23_HunkHeader ==
    diffPc = "done" =>
        /\ Len(headersOf(diffText)) = Len(hunksOf(diffLines))
        /\ \A k \in 1..Len(hunksOf(diffLines)) :
             \E olds \in {markedIn(diffLines, hunksOf(diffLines)[k], {" ", "-"})},
                news \in {markedIn(diffLines, hunksOf(diffLines)[k], {" ", "+"})},
                hd \in {headersOf(diffText)[k]} :
                 /\ hd.oldCount = Cardinality(olds)
                 /\ hd.newCount = Cardinality(news)
                 /\ hd.oldStart = IF olds = {} THEN 1 ELSE diffLines[Least(olds)].oldLine
                 /\ hd.newStart = IF news = {} THEN 1 ELSE diffLines[Least(news)].newLine
                 /\ hd.oldStart >= 1 /\ hd.newStart >= 1

\* a diff of two hunks, the second one starting below line 1 on both sides
C23_Witness ==
    /\ diffPc = "done"
    /\ Len(headersOf(diffText)) = 2
    /\ headersOf(diffText)[2].oldStart > 1
    /\ headersOf(diffText)[2].newStart > headersOf(diffText)[2].oldStart

\* a hunk without old lines: everything is inserted into an empty file
C23_WitnessEmptyOld ==
    /\ diffPc = "done"
    /\ oldLines = <<>>
    /\ Len(headersOf(diffText)) = 1
    /\ headersOf(diffText)[1].oldCount = 0
    /\ headersOf(diffText)[1].oldStart = 1

\* diff line i (1-based) is a change or lies within ContextLines positions of one
keptLine(result, i) ==
    \E j \in 1..Len(result) :
        result[j].change # " " /\ j - i <= ContextLines /\ i - j <= ContextLines

\* what the output must be below the file header: the kept diff lines in order,
\* each run of neighbouring kept lines under one hunk header
RECURSIVE expectedShape(_, _)
expectedShape(result, i) ==
    IF i > Len(result) THEN <<>>
    ELSE IF ~keptLine(result, i) THEN expectedShape(result, i + 1)
    ELSE (IF i = 1 \/ ~keptLine(result, i - 1) THEN <<[kind |-> "hunk"]>> ELSE <<>>)
         \o <<[kind |-> "line", change |-> result[i].change, text |-> result[i].text]>>
         \o expectedShape(result, i + 1)

\* the output below the file header, hunk headers reduced to their kind
shapeOf(text) ==
    [k \in 1..(Len(text) - 2) |->
        IF text[k + 2].kind = "hunk" THEN [kind |-> "hunk"] ELSE text[k + 2]]

\* C24: every changed line is output once; an unchanged line is output exactly
\* when it lies within 3 positions of a changed line of the diff-line sequence;
\* the hunks are the maximal runs of neighbouring output lines, so that a new
\* hunk header stands exactly where a line was dropped.
C24_HunkFormation ==
    (diffPc = "done" /\ diffText # <<>>) =>
        shapeOf(diffText) = expectedShape(diffLines, 1)

\* two hunks with unchanged lines dropped between them
C24_Witness ==
    /\ diffPc = "done"
    /\ Len(diffText) > 2
    /\ Cardinality({k \in 1..Len(diffText) : diffText[k].kind = "hunk"}) = 2
    /\ \E i \in 2..(Len(diffLines) - 1) : ~keptLine(diffLines, i)

\* the positions of the hunk headers in the output
headerPositions(text) == {p \in 1..Len(text) : text[p].kind = "hunk"}

\* the body lines that follow the header at position p, up to the next header
bodyOf(text, p) ==
    SubSeq(text, p + 1, Least({q \in (p + 1)..Len(text) : text[q].kind = "hunk"}
                              \cup {Len(text) + 1}) - 1)

\* the lines start .. start+count-1 of a file
lineRange(file, start, count) == [k \in 1..count |-> file[start + k - 1]]

\* C28: every rendered hunk is a valid patch fragment. Under the header
\* @@ -oldStart,oldCount +newStart,newCount @@ the ' ' and '-' lines are, in
\* order, the lines oldStart .. oldStart+oldCount-1 of the old file and the
\* ' ' and '+' lines the lines newStart .. newStart+newCount-1 of the new
\* file; each hunk starts after the end of the range of the hunk before it,
\* on both sides.
C28_ValidPatchFragment ==
    diffPc = "done" =>
        /\ \A p \in headerPositions(diffText) :
             /\ diffText[p].oldStart >= 1 /\ diffText[p].newStart >= 1
             /\ diffText[p].oldStart + diffText[p].oldCount - 1 <= Len(oldLines)
             /\ diffText[p].newStart + diffText[p].newCount - 1 <= Len(newLines)
             /\ markedTexts(bodyOf(diffText, p), {" ", "-"})
                  = lineRange(oldLines, diffText[p].oldStart, diffText[p].oldCount)
             /\ markedTexts(bodyOf(diffText, p), {" ", "+"})
                  = lineRange(newLines, diffText[p].newStart, diffText[p].newCount)
        /\ \A p, q \in headerPositions(diffText) :
             p < q =>
                /\ diffText[p].oldStart < diffText[q].oldStart
                /\ diffText[p].newStart < diffText[q].newStart
                /\ diffText[p].oldStart + diffText[p].oldCount - 1 < diffText[q].oldStart
                /\ diffText[p].newStart + diffText[p].newCount - 1 < diffText[q].newStart

\* two hunks, the first with a deletion and the second with an insertion, and
\* unchanged lines of the file left out between them
C28_Witness ==
    /\ diffPc = "done"
    /\ Cardinality(headerPositions(diffText)) = 2
    /\ \E p, q \in headerPositions(diffText) :
         /\ p < q
         /\ diffText[p].oldCount > diffText[p].newCount
         /\ diffText[q].newCount > diffText[q].oldCount
         /\ diffText[p].oldStart + diffText[p].oldCount < diffText[q].oldStart

\* the concatenation of texts, runs that meet merged
RECURSIVE joinTexts(_)
joinTexts(ts) ==
    IF Len(ts) = 0 THEN <<>>
    ELSE LET rest == joinTexts(Tail(ts))
         IN  IF Len(ts[1]) > 0 /\ Len(rest) > 0 /\ ts[1][Len(ts[1])].sym = rest[1].sym
             THEN SubSeq(ts[1], 1, Len(ts[1]) - 1)
                  \o <<[sym |-> rest[1].sym, n |-> ts[1][Len(ts[1])].n + rest[1].n]>>
                  \o Tail(rest)
             ELSE ts[1] \o rest

\* C29: every chunk returned by chunkString(s, n) has length at most n, also
\* when the break point is moved to a newline near the chunk boundary.
C29_ChunkBound ==
    chunkPc = "done" =>
        \A k \in 1..Len(chunks) : textLen(chunks[k]) <= chunkLimit

\* what the chunks do satisfy: none is empty, none is longer than n + 1, a
\* chunk of n + 1 characters ends with a newline, and the chunks joined are s
C29_ChunkBoundPlusOne ==
    chunkPc = "done" =>
        /\ \A k \in 1..Len(chunks) :
             /\ textLen(chunks[k]) \in 1..(chunkLimit + 1)
             /\ textLen(chunks[k]) = chunkLimit + 1 =>
                  chunks[k][Len(chunks[k])].sym = "\n"
        /\ joinTexts(chunks) = chunkInput

\* a chunk of n + 1 characters, cut behind the newline at index n
C29_TooLong ==
    /\ chunkPc = "done"
    /\ \E k \in 1..Len(chunks) : textLen(chunks[k]) = chunkLimit + 1

====
